---- MODULE Spec2Model ----
(***************************************************************************)
(* Working-directory context of the cloudify CLI (cloudify_cli/utils.py)   *)
(* and the start-up command registration (cloudify_cli/cli.py).            *)
(*                                                                         *)
(* The file system is a tree of directories; each directory may hold the   *)
(* marker directory `.cloudify`, and a marker may hold the settings file   *)
(* `context`.  A settings file is a YAML document: the model keeps it as   *)
(* the tagged mapping of scalar tokens that yaml.dump emits and yaml.load  *)
(* resolves.                                                               *)
(***************************************************************************)
EXTENDS Integers, Sequences, FiniteSets, TLC

\* ------------------------------------------------------------------ bounds
\* Number of directories of the tree; directory 0 is the file-system root.
NumDirs == 5
\* Most marker directories the runs create (caps the os.mkdir of dump).
MaxMarkers == 2

\* ------------------------------------------------------- python values
\* Every value has the same shape, so that any two can be compared:
\* t the type, n the integer, s the characters of a string, m the items of
\* a dict (pairs <<key characters, scalar value>>, kept sorted by key).
None == [t |-> "none", n |-> 0, s |-> <<>>, m |-> <<>>]
PyInt(i) == [t |-> "int", n |-> i, s |-> <<>>, m |-> <<>>]
PyStr(chars) == [t |-> "str", n |-> 0, s |-> chars, m |-> <<>>]
PyDict(items) == [t |-> "dict", n |-> 0, s |-> <<>>, m |-> items]

\* Python truthiness of a value (`if x:`).
Truthy(v) ==
    CASE v.t = "none" -> FALSE
      [] v.t = "int" -> v.n # 0
      [] v.t = "str" -> v.s # <<>>
      [] OTHER -> v.m # <<>>

DigitChars == <<"0", "1", "2", "3", "4", "5", "6", "7", "8", "9">>
DigitSet == {DigitChars[i] : i \in 1..10}
DigitValue(c) == (CHOOSE i \in 1..10 : DigitChars[i] = c) - 1

\* str(int) for a non-negative integer: its decimal digits.
RECURSIVE Digits(_)
Digits(i) == IF i < 10 THEN <<DigitChars[i + 1]>>
             ELSE Append(Digits(i \div 10), DigitChars[(i % 10) + 1])

\* int(text) for a string of decimal digits.
RECURSIVE ParseInt(_)
ParseInt(chars) ==
    IF chars = <<>> THEN 0
    ELSE 10 * ParseInt(SubSeq(chars, 1, Len(chars) - 1))
         + DigitValue(chars[Len(chars)])

\* --------------------------------------------------------------- yaml
\* The implicit resolver of yaml.Loader / yaml.Dumper: the tag a plain
\* (unquoted) scalar resolves to.  null: empty, ~, null; int: 0 or a
\* decimal without leading zero; bool: yes/no/true/false/on/off; else str.
NullTexts == {<<>>, <<"~">>, <<"n", "u", "l", "l">>, <<"N", "u", "l", "l">>,
              <<"N", "U", "L", "L">>}
BoolTexts == {<<"y", "e", "s">>, <<"n", "o">>, <<"o", "n">>, <<"o", "f", "f">>,
              <<"t", "r", "u", "e">>, <<"f", "a", "l", "s", "e">>}
IsIntText(chars) ==
    /\ chars # <<>>
    /\ \A i \in 1..Len(chars) : chars[i] \in DigitSet
    /\ (chars[1] = "0" => Len(chars) = 1)

resolve_plain(chars) ==
    IF chars \in NullTexts THEN "null"
    ELSE IF chars \in BoolTexts THEN "bool"
    ELSE IF IsIntText(chars) THEN "int"
    ELSE "str"

\* A scalar as written in the document: its style and its characters.
Token(style, chars) == [style |-> style, text |-> chars, items |-> <<>>]

\* Mutant of represent_scalar: every scalar is written plain, never quoted.
represent_scalar_plain(v) ==
    Token("plain", CASE v.t = "none" -> <<"n", "u", "l", "l">>
                     [] v.t = "int" -> Digits(v.n)
                     [] OTHER -> v.s)

\* yaml.dump of a scalar: the representer gives the tag and the text
\* (None -> null, int -> its digits, str -> itself); the emitter writes it
\* plain when the plain text resolves to that tag, and quoted otherwise.
represent_scalar(v) ==
    LET tag == CASE v.t = "none" -> "null"
                 [] v.t = "int" -> "int"
                 [] OTHER -> "str"
        text == CASE v.t = "none" -> <<"n", "u", "l", "l">>
                  [] v.t = "int" -> Digits(v.n)
                  [] OTHER -> v.s
    IN  Token(IF resolve_plain(text) = tag THEN "plain" ELSE "quoted", text)

\* yaml.load of a scalar: a quoted scalar is a str, a plain one is what
\* the resolver says.
construct_scalar(tok) ==
    LET tag == IF tok.style = "plain" THEN resolve_plain(tok.text) ELSE "str"
    IN  CASE tag = "null" -> None
          [] tag = "int" -> PyInt(ParseInt(tok.text))
          [] tag = "bool" -> [t |-> "bool", n |-> 0, s |-> tok.text, m |-> <<>>]
          [] OTHER -> PyStr(tok.text)

\* yaml.dump / yaml.load of any value of the model: a dict is a block
\* mapping of scalar keys to scalar values.
represent(v) ==
    IF v.t = "dict"
    THEN [style |-> "mapping", text |-> <<>>,
          items |-> [i \in 1..Len(v.m) |->
                        <<represent_scalar(PyStr(v.m[i][1])),
                          represent_scalar(v.m[i][2])>>]]
    ELSE represent_scalar(v)

construct(node) ==
    IF node.style = "mapping"
    THEN PyDict([i \in 1..Len(node.items) |->
                  <<construct_scalar(node.items[i][1]).s,
                    construct_scalar(node.items[i][2])>>])
    ELSE construct_scalar(node)

\* ------------------------------------- CloudifyWorkingDirectorySettings
\* The attributes of the object, in the (sorted) order yaml.dump writes.
FieldOrder == <<"_management_host", "_management_key", "_management_port",
                "_management_user", "_provider_context", "_rest_port",
                "_rest_protocol">>
Fields == {FieldOrder[i] : i \in 1..Len(FieldOrder)}

DEFAULT_REST_PORT == 80
DEFAULT_PROTOCOL == PyStr(<<"h", "t", "t", "p">>)

\* CloudifyWorkingDirectorySettings.__init__
NewSettings ==
    [f \in Fields |->
        CASE f = "_rest_port" -> PyInt(DEFAULT_REST_PORT)
          [] f = "_rest_protocol" -> DEFAULT_PROTOCOL
          [] OTHER -> None]

get_management_server(obj) == obj["_management_host"]
set_management_server(obj, host) == [obj EXCEPT !["_management_host"] = host]
remove_management_server_context(obj) ==
    [obj EXCEPT !["_management_host"] = None]
get_rest_port(obj) == obj["_rest_port"]
set_rest_port(obj, port) == [obj EXCEPT !["_rest_port"] = port]

\* A file: NoFile, or the document yaml.dump wrote (tag and attribute
\* nodes in FieldOrder).
WD_TAG == "!WD_Settings"
NoFile == [tag |-> "", body |-> <<>>]

\* yaml.dump(cosmo_wd_settings): the object's __dict__ under the class tag.
yaml_dump(obj) ==
    [tag |-> WD_TAG,
     body |-> [i \in 1..Len(FieldOrder) |->
                  <<FieldOrder[i], represent(obj[FieldOrder[i]])>>]]

\* A file that exists and holds no byte (opened for writing, not written).
EmptyFile == [tag |-> "empty", body |-> <<>>]

\* yaml.load(f.read()): an object whose __dict__ is the document's mapping;
\* None for a stream without a document.
yaml_load(doc) ==
    IF doc = EmptyFile THEN None
    ELSE [f \in {doc.body[i][1] : i \in 1..Len(doc.body)} |->
             construct(doc.body[CHOOSE i \in 1..Len(doc.body) :
                                     doc.body[i][1] = f][2])]

\* ---------------------------------------------------------- file system
VARIABLES
    cwd,                \* os.getcwd() of the running invocation
    marker,             \* the directories that hold a `.cloudify` directory
    context,            \* per directory, the file `.cloudify/context`
    pc,                 \* where the invocation is: import, cli, command,
                        \* scope, failed, exited
    registered,         \* the commands added to the click group `main`
    res,                \* what the last operation returned or raised
    cosmo_wd_settings,  \* the object yielded inside update_wd_settings
    entry_context,      \* the settings files as they were at scope entry
    args,               \* the arguments and the environment (os.environ,
                        \* input files) a library function is called with
    outcome             \* what that library function returned or raised

vars == <<cwd, marker, context, pc, registered, res, cosmo_wd_settings,
          entry_context, args, outcome>>

Dirs == 0..(NumDirs - 1)

\* os.path.dirname on the tree: directories 0..NumDirs-2 are nested one in
\* the other below the root, the last directory is a second child of the
\* root; dirname of the root is the root.
dirname(d) == IF d = 0 \/ d = NumDirs - 1 THEN 0 ELSE d - 1

\* Number of dirname steps from d to the root.
RECURSIVE Depth(_)
Depth(d) == IF dirname(d) = d THEN 0 ELSE 1 + Depth(dirname(d))

CLOUDIFY_WD_SETTINGS_DIRECTORY_NAME == ".cloudify"
CLOUDIFY_WD_SETTINGS_FILE_NAME == "context"

\* A path: a directory of the tree and the names below it.
Path(d, names) == [dir |-> d, rel |-> names]
NoPath == [dir |-> -1, rel |-> <<>>]
join(path, name) == [path EXCEPT !.rel = Append(@, name)]

\* os.path.exists
exists(path) ==
    CASE path.rel = <<>> -> path.dir \in Dirs
      [] path.rel = <<CLOUDIFY_WD_SETTINGS_DIRECTORY_NAME>> ->
            path.dir \in marker
      [] path.rel = <<CLOUDIFY_WD_SETTINGS_DIRECTORY_NAME,
                      CLOUDIFY_WD_SETTINGS_FILE_NAME>> ->
            path.dir \in marker /\ context[path.dir] # NoFile
      [] OTHER -> FALSE

get_cwd == cwd

\* ------------------------------------------------------------- errors
NoError == [type |-> "", msg |-> "", path |-> NoPath,
            possible_solutions |-> <<>>]
CloudifyCliError(msg, path) ==
    [type |-> "CloudifyCliError", msg |-> msg, path |-> path,
     possible_solutions |-> <<>>]

\* Mutant of raise_uninitialized: the error carries no possible_solutions.
raise_uninitialized_no_hint ==
    CloudifyCliError("Not initialized: Cannot find .cloudify",
                     Path(get_cwd, <<>>))

\* raise_uninitialized: the error it builds and raises.
raise_uninitialized ==
    [CloudifyCliError("Not initialized: Cannot find .cloudify",
                      Path(get_cwd, <<>>))
        EXCEPT !.possible_solutions = <<"Run 'cfy init' in this directory">>]

\* ------------------------------------------------- settings store, reads
\* Mutant of lookup: the loop ends on reaching the root without testing it.
RECURSIVE lookup_skips_root(_)
lookup_skips_root(current_lookup_dir) ==
    LET path == join(Path(current_lookup_dir, <<>>),
                     CLOUDIFY_WD_SETTINGS_DIRECTORY_NAME)
    IN  IF dirname(current_lookup_dir) = current_lookup_dir THEN NoPath
        ELSE IF exists(path) THEN path
        ELSE lookup_skips_root(dirname(current_lookup_dir))

\* get_init_path: the while loop, as a walk from a lookup directory.
RECURSIVE lookup(_)
lookup(current_lookup_dir) ==
    LET path == join(Path(current_lookup_dir, <<>>),
                     CLOUDIFY_WD_SETTINGS_DIRECTORY_NAME)
    IN  IF exists(path) THEN path
        ELSE IF dirname(current_lookup_dir) = current_lookup_dir THEN NoPath
        ELSE lookup(dirname(current_lookup_dir))

get_init_path == lookup(get_cwd)

\* The number of times the loop of get_init_path tests a directory.
RECURSIVE lookup_iterations(_)
lookup_iterations(current_lookup_dir) ==
    IF exists(join(Path(current_lookup_dir, <<>>),
                   CLOUDIFY_WD_SETTINGS_DIRECTORY_NAME))
       \/ dirname(current_lookup_dir) = current_lookup_dir
    THEN 1
    ELSE 1 + lookup_iterations(dirname(current_lookup_dir))

is_initialized == get_init_path # NoPath

\* Mutant of get_context_path: a missing settings file is reported with the
\* error of a missing marker.
get_context_path_same_error ==
    LET init_path == get_init_path
        context_path == join(init_path, CLOUDIFY_WD_SETTINGS_FILE_NAME)
    IN  IF init_path = NoPath \/ ~exists(context_path)
        THEN [error |-> raise_uninitialized, path |-> NoPath]
        ELSE [error |-> NoError, path |-> context_path]

\* get_context_path: the path it returns, or the error it raises.
get_context_path ==
    LET init_path == get_init_path
        context_path == join(init_path, CLOUDIFY_WD_SETTINGS_FILE_NAME)
    IN  IF init_path = NoPath
        THEN [error |-> raise_uninitialized, path |-> NoPath]
        ELSE IF ~exists(context_path)
        THEN [error |-> CloudifyCliError("File does not exist", context_path),
              path |-> NoPath]
        ELSE [error |-> NoError, path |-> context_path]

\* What a function returning a settings object gives: an error raised, or
\* None, or the object.
NoObj == [f \in Fields |-> None]
Raised(e) == [error |-> e, none |-> FALSE, obj |-> NoObj]
ReturnNone == [error |-> NoError, none |-> TRUE, obj |-> NoObj]
Return(o) == [error |-> NoError, none |-> FALSE, obj |-> o]

\* Mutant of load_cloudify_working_dir_settings: the except clause always
\* re-raises.
load_never_suppresses(suppress_error) ==
    LET got == get_context_path
    IN  IF got.error # NoError
        THEN Raised(got.error)
        ELSE Return(yaml_load(context[got.path.dir]))

\* load_cloudify_working_dir_settings(suppress_error)
load_cloudify_working_dir_settings(suppress_error) ==
    LET got == get_context_path
    IN  IF got.error # NoError
        THEN IF suppress_error THEN ReturnNone ELSE Raised(got.error)
        ELSE Return(yaml_load(context[got.path.dir]))

\* ------------------------------------------------ settings store, writes
\* Mutant of dump_cloudify_working_dir_settings: the update flag is not
\* looked at, the file is always written below the current directory.
dump_ignores_update(given, settings, update) ==
    LET obj == IF given THEN settings ELSE NewSettings
        path == join(Path(get_cwd, <<>>), CLOUDIFY_WD_SETTINGS_DIRECTORY_NAME)
    IN  [error |-> NoError,
         marker |-> IF exists(path) THEN marker ELSE marker \cup {get_cwd},
         context |-> [context EXCEPT ![get_cwd] = yaml_dump(obj)],
         target |-> join(path, CLOUDIFY_WD_SETTINGS_FILE_NAME)]

\* Mutant of dump_cloudify_working_dir_settings: without update, the file is
\* written below the marker the upward search finds, when there is one.
dump_fresh_at_located(given, settings, update) ==
    LET obj == IF given THEN settings ELSE NewSettings
        got == get_context_path
        found == get_init_path
        path == IF found # NoPath THEN found
                ELSE join(Path(get_cwd, <<>>),
                          CLOUDIFY_WD_SETTINGS_DIRECTORY_NAME)
    IN  IF update
        THEN IF got.error # NoError
             THEN [error |-> got.error, marker |-> marker, context |-> context,
                   target |-> NoPath]
             ELSE [error |-> NoError, marker |-> marker,
                   context |-> [context EXCEPT ![got.path.dir] = yaml_dump(obj)],
                   target |-> got.path]
        ELSE [error |-> NoError, marker |-> marker \cup {path.dir},
              context |-> [context EXCEPT ![path.dir] = yaml_dump(obj)],
              target |-> join(path, CLOUDIFY_WD_SETTINGS_FILE_NAME)]

\* dump_cloudify_working_dir_settings(cosmo_wd_settings, update): the error
\* it raises and the file system it leaves.  given = FALSE is the call
\* without a settings object.
dump_cloudify_working_dir_settings(given, settings, update) ==
    LET obj == IF given THEN settings ELSE NewSettings
        got == get_context_path
        path == join(Path(get_cwd, <<>>), CLOUDIFY_WD_SETTINGS_DIRECTORY_NAME)
        made == IF exists(path) THEN marker ELSE marker \cup {get_cwd}
    IN  IF update
        THEN IF got.error # NoError
             THEN [error |-> got.error, marker |-> marker, context |-> context,
                   target |-> NoPath]
             ELSE [error |-> NoError, marker |-> marker,
                   context |-> [context EXCEPT ![got.path.dir] = yaml_dump(obj)],
                   target |-> got.path]
        ELSE [error |-> NoError, marker |-> made,
              context |-> [context EXCEPT ![get_cwd] = yaml_dump(obj)],
              target |-> join(path, CLOUDIFY_WD_SETTINGS_FILE_NAME)]

\* delete_cloudify_working_dir_settings: the settings files it leaves.
delete_cloudify_working_dir_settings ==
    LET target_file_path ==
            Path(get_cwd, <<CLOUDIFY_WD_SETTINGS_DIRECTORY_NAME,
                            CLOUDIFY_WD_SETTINGS_FILE_NAME>>)
    IN  IF exists(target_file_path)
        THEN [context EXCEPT ![get_cwd] = NoFile]
        ELSE context

\* ------------------------------------------------------ mode selection
\* utils.is_manager_active, called by register_commands.
\* error is the exception load lets through, flag the value returned.
is_manager_active ==
    LET dir_settings == load_cloudify_working_dir_settings(TRUE)
    IN  [error |-> dir_settings.error,
         flag |-> /\ dir_settings.error = NoError
                  /\ ~dir_settings.none
                  /\ Truthy(get_management_server(dir_settings.obj))]

AlwaysCommands ==
    {"use.use", "recover.recover", "init.init_command", "validate.validate",
     "bootstrap.bootstrap"}
ManagerCommands ==
    {"dev.dev", "ssh.ssh", "logs.logs", "nodes.nodes", "agents.agents",
     "events.events", "groups.groups", "status.status", "plugins.plugins",
     "upgrade.upgrade", "teardown.teardown", "rollback.rollback",
     "workflows.workflows", "snapshots.snapshots", "blueprints.blueprints",
     "executions.executions", "install.remote_install",
     "deployments.deployments", "uninstall.remote_uninstall",
     "maintenance.maintenance_mode", "node_instances.node_instances"}
LocalCommands ==
    {"install.local_install", "uninstall.local_uninstall",
     "node_instances.node_instances_command"}

\* Mutant of commands_to_register: the local commands are added outside
\* the else branch.
commands_to_register_both ==
    AlwaysCommands
        \cup (IF is_manager_active.flag THEN ManagerCommands ELSE {})
        \cup LocalCommands

\* The commands register_commands adds to `main`.
commands_to_register ==
    AlwaysCommands
        \cup (IF is_manager_active.flag THEN ManagerCommands
              ELSE LocalCommands)

\* --------------------------------------------------------------- inputs
Chars_10_0_0_1 == <<"1", "0", ".", "0", ".", "0", ".", "1">>
Chars_null == <<"n", "u", "l", "l">>
Chars_https == <<"h", "t", "t", "p", "s">>

\* The manager hosts a `use` may store.
HostValues == {PyStr(Chars_10_0_0_1)}

\* The settings objects handed to dump_cloudify_working_dir_settings.
SettingsSamples ==
    {NewSettings,
     set_management_server(NewSettings, PyStr(Chars_10_0_0_1))}

\* ---------------------------------------------------------------- state
Blank == [d \in Dirs |-> NoFile]

\* No library function was called on its own.
NoArgs == <<>>
NoOutcome == <<>>

Res(op) == [op |-> op, arg |-> FALSE, error |-> NoError, path |-> NoPath,
            none |-> FALSE, obj |-> NoObj, flag |-> FALSE, n |-> 0]

Init ==
    /\ cwd \in Dirs
    /\ marker = {}
    /\ context = Blank
    /\ pc = "import"
    /\ registered = {}
    /\ res = Res("start")
    /\ cosmo_wd_settings = NoObj
    /\ entry_context = Blank
    /\ args = NoArgs
    /\ outcome = NoOutcome

\* cli.py, module level: register_commands() runs as the module is imported.
\* An exception of is_manager_active leaves the first line of the function
\* and ends the import with nothing registered.
register_commands ==
    /\ pc = "import"
    /\ registered' = IF is_manager_active.error = NoError
                     THEN commands_to_register ELSE {}
    /\ pc' = IF is_manager_active.error = NoError THEN "cli" ELSE "failed"
    /\ res' = [Res("register_commands") EXCEPT
                  !.error = is_manager_active.error,
                  !.flag = is_manager_active.flag]
    /\ UNCHANGED <<cwd, marker, context, cosmo_wd_settings, entry_context>>
    /\ UNCHANGED <<args, outcome>>

\* cli.py main(verbose, debug): the group callback, run before the command.
main ==
    /\ pc = "cli"
    /\ pc' = "command"
    /\ res' = Res("main")
    /\ UNCHANGED <<cwd, marker, context, registered, cosmo_wd_settings,
                   entry_context>>
    /\ UNCHANGED <<args, outcome>>

\* A command body calls get_init_path().
call_get_init_path ==
    /\ pc = "command"
    /\ res' = [Res("get_init_path") EXCEPT
                  !.path = get_init_path,
                  !.none = (get_init_path = NoPath),
                  !.n = lookup_iterations(get_cwd)]
    /\ entry_context' = Blank
    /\ UNCHANGED <<cwd, marker, context, pc, registered, cosmo_wd_settings>>
    /\ UNCHANGED <<args, outcome>>

\* A command body calls load_cloudify_working_dir_settings(suppress_error).
call_load(suppress_error) ==
    /\ pc = "command"
    /\ LET got == load_cloudify_working_dir_settings(suppress_error)
       IN  res' = [Res("load") EXCEPT
                      !.arg = suppress_error, !.error = got.error,
                      !.none = got.none, !.obj = got.obj]
    /\ entry_context' = Blank
    /\ UNCHANGED <<cwd, marker, context, pc, registered, cosmo_wd_settings>>
    /\ UNCHANGED <<args, outcome>>

\* A command body calls dump_cloudify_working_dir_settings(settings, update).
call_dump(given, settings, update) ==
    /\ pc = "command"
    /\ update \/ get_cwd \in marker \/ Cardinality(marker) < MaxMarkers
    /\ LET out == dump_cloudify_working_dir_settings(given, settings, update)
       IN  /\ marker' = out.marker
           /\ context' = out.context
           /\ res' = [Res("dump") EXCEPT
                         !.arg = update, !.error = out.error,
                         !.path = out.target, !.none = ~given,
                         !.obj = IF given THEN settings ELSE NewSettings]
    /\ entry_context' = Blank
    /\ UNCHANGED <<cwd, pc, registered, cosmo_wd_settings>>
    /\ UNCHANGED <<args, outcome>>

\* A command body calls delete_cloudify_working_dir_settings().
call_delete ==
    /\ pc = "command"
    /\ context' = delete_cloudify_working_dir_settings
    /\ res' = Res("delete")
    /\ entry_context' = Blank
    /\ UNCHANGED <<cwd, marker, pc, registered, cosmo_wd_settings>>
    /\ UNCHANGED <<args, outcome>>

\* `with update_wd_settings() as wd:` the load before the yield.
scope_enter ==
    /\ pc = "command"
    /\ LET got == load_cloudify_working_dir_settings(FALSE)
       IN  IF got.error # NoError
           THEN /\ res' = [Res("update_wd_settings") EXCEPT !.error = got.error]
                /\ entry_context' = Blank
                /\ UNCHANGED <<pc, cosmo_wd_settings>>
           ELSE /\ res' = [Res("yield") EXCEPT !.obj = got.obj]
                /\ pc' = "scope"
                /\ cosmo_wd_settings' = got.obj
                /\ entry_context' = context
    /\ UNCHANGED <<cwd, marker, context, registered>>
    /\ UNCHANGED <<args, outcome>>

\* Inside the scope: wd.set_management_server(host).
scope_set_management_server(host) ==
    /\ pc = "scope"
    /\ cosmo_wd_settings' = set_management_server(cosmo_wd_settings, host)
    /\ UNCHANGED <<cwd, marker, context, pc, registered, res, entry_context>>
    /\ UNCHANGED <<args, outcome>>

\* Inside the scope: wd.remove_management_server_context().
scope_remove_management_server_context ==
    /\ pc = "scope"
    /\ cosmo_wd_settings' = remove_management_server_context(cosmo_wd_settings)
    /\ UNCHANGED <<cwd, marker, context, pc, registered, res, entry_context>>
    /\ UNCHANGED <<args, outcome>>

\* Mutant of scope_exit: the commands are registered again after the
\* settings were written.
scope_exit_reregisters ==
    /\ pc = "scope"
    /\ LET out == dump_cloudify_working_dir_settings(TRUE, cosmo_wd_settings,
                                                     TRUE)
       IN  /\ marker' = out.marker
           /\ context' = out.context
           /\ res' = [Res("update_wd_settings") EXCEPT
                         !.error = out.error, !.path = out.target,
                         !.obj = cosmo_wd_settings]
           /\ registered' =
                 AlwaysCommands
                    \cup (IF Truthy(get_management_server(cosmo_wd_settings))
                          THEN ManagerCommands ELSE LocalCommands)
    /\ pc' = "command"
    /\ cosmo_wd_settings' = NoObj
    /\ UNCHANGED <<cwd, entry_context>>
    /\ UNCHANGED <<args, outcome>>

\* The scope completes: the generator resumes after the yield and dumps.
scope_exit ==
    /\ pc = "scope"
    /\ LET out == dump_cloudify_working_dir_settings(TRUE, cosmo_wd_settings,
                                                     TRUE)
       IN  /\ marker' = out.marker
           /\ context' = out.context
           /\ res' = [Res("update_wd_settings") EXCEPT
                         !.error = out.error, !.path = out.target,
                         !.obj = cosmo_wd_settings]
    /\ pc' = "command"
    /\ cosmo_wd_settings' = NoObj
    /\ UNCHANGED <<cwd, registered, entry_context>>
    /\ UNCHANGED <<args, outcome>>

\* The body raises: the exception is thrown into the generator at the
\* yield, nothing catches it there, and it propagates to the caller.
BodyError == [type |-> "Exception", msg |-> "raised inside the scope",
              path |-> NoPath, possible_solutions |-> <<>>]
\* Mutant of scope_raise: the dump runs in a finally clause.
scope_raise_dumps ==
    /\ pc = "scope"
    /\ LET out == dump_cloudify_working_dir_settings(TRUE, cosmo_wd_settings,
                                                     TRUE)
       IN  /\ marker' = out.marker
           /\ context' = out.context
    /\ res' = [Res("update_wd_settings") EXCEPT
                  !.error = BodyError, !.obj = cosmo_wd_settings]
    /\ pc' = "command"
    /\ cosmo_wd_settings' = NoObj
    /\ UNCHANGED <<cwd, registered, entry_context>>
    /\ UNCHANGED <<args, outcome>>

scope_raise ==
    /\ pc = "scope"
    /\ res' = [Res("update_wd_settings") EXCEPT
                  !.error = BodyError, !.obj = cosmo_wd_settings]
    /\ pc' = "command"
    /\ cosmo_wd_settings' = NoObj
    /\ UNCHANGED <<cwd, marker, context, registered, entry_context>>
    /\ UNCHANGED <<args, outcome>>

\* The command returns, or the import failed: the process ends.
process_exit ==
    /\ pc \in {"command", "failed"}
    /\ pc' = "exited"
    /\ res' = Res("exit")
    /\ entry_context' = Blank
    /\ UNCHANGED <<cwd, marker, context, registered, cosmo_wd_settings>>
    /\ UNCHANGED <<args, outcome>>

\* The next invocation starts in some directory, and imports cli.py again.
next_invocation ==
    /\ pc = "exited"
    /\ pc' = "import"
    /\ cwd' \in Dirs
    /\ registered' = {}
    /\ res' = Res("start")
    /\ UNCHANGED <<marker, context, cosmo_wd_settings, entry_context>>
    /\ UNCHANGED <<args, outcome>>

Next ==
    \/ register_commands
    \/ main
    \/ call_get_init_path
    \/ \E suppress_error \in BOOLEAN : call_load(suppress_error)
    \/ \E settings \in SettingsSamples, update \in BOOLEAN :
          call_dump(TRUE, settings, update)
    \/ \E update \in BOOLEAN : call_dump(FALSE, NoObj, update)
    \/ call_delete
    \/ scope_enter
    \/ \E host \in HostValues : scope_set_management_server(host)
    \/ scope_remove_management_server_context
    \/ scope_exit
    \/ scope_raise
    \/ process_exit
    \/ next_invocation

Spec == Init /\ [][Next]_vars

TypeOK ==
    /\ cwd \in Dirs
    /\ marker \subseteq Dirs
    /\ \A d \in Dirs : context[d] # NoFile => d \in marker
    /\ pc \in {"import", "cli", "command", "scope", "failed", "exited"}
    /\ Cardinality(marker) <= MaxMarkers

\* ------------------------------------------------ round trip of a record
\* The values an attribute of a settings object takes in the round-trip
\* runs: unset, set, and strings that read like another YAML type.
AttributeValues(f) ==
    CASE f = "_management_host" ->
            {None, PyStr(Chars_10_0_0_1), PyStr(Chars_null)}
      [] f = "_management_key" -> {None, PyStr(<<"~">>)}
      [] f = "_management_user" -> {None, PyStr(<<"r", "o", "o", "t">>),
                                    PyStr(<<>>)}
      [] f = "_management_port" -> {None, PyInt(22), PyStr(<<"2", "2">>)}
      [] f = "_provider_context" ->
            {None, PyDict(<<>>),
             PyDict(<< <<(<<"k">>), PyStr(<<"n", "o">>)>> >>)}
      [] f = "_rest_port" -> {None, PyInt(DEFAULT_REST_PORT), PyInt(443)}
      [] OTHER -> {None, DEFAULT_PROTOCOL, PyStr(Chars_https)}

AllSettings ==
    [_management_host : AttributeValues("_management_host"),
     _management_key : AttributeValues("_management_key"),
     _management_port : AttributeValues("_management_port"),
     _management_user : AttributeValues("_management_user"),
     _provider_context : AttributeValues("_provider_context"),
     _rest_port : AttributeValues("_rest_port"),
     _rest_protocol : AttributeValues("_rest_protocol")]

InitRoundTrip ==
    /\ cwd \in Dirs
    /\ marker = {}
    /\ context = Blank
    /\ pc = "command"
    /\ registered = {}
    /\ res = Res("start")
    /\ cosmo_wd_settings \in AllSettings
    /\ entry_context = Blank
    /\ args = NoArgs
    /\ outcome = NoOutcome

\* Save the record, then load it back.
NextRoundTrip ==
    \/ res.op = "start" /\ call_dump(TRUE, cosmo_wd_settings, FALSE)
    \/ res.op = "dump" /\ call_load(FALSE)

SpecRoundTrip == InitRoundTrip /\ [][NextRoundTrip]_vars

\* ------------------------------------------------------ the REST client
PyBool(b) == [t |-> "bool", n |-> IF b THEN 1 ELSE 0, s |-> <<>>, m |-> <<>>]

\* What a function returning one value gives: the value, or an error raised.
Value(v) == [error |-> NoError, value |-> v]
Fail(e) == [error |-> e, value |-> None]

\* os.environ.get(name): the value, None when the variable is not set.
environ_get(name) == args.environ[name]

get_rest_protocol(obj) == obj["_rest_protocol"]

\* Mutant of get_rest_host: an unset host is returned instead of raising.
get_rest_host_returns_unset ==
    LET cosmo == load_cloudify_working_dir_settings(FALSE)
    IN  IF cosmo.error # NoError THEN Fail(cosmo.error)
        ELSE Value(get_management_server(cosmo.obj))

\* get_rest_host(): the stored host, or the error raised (the backquotes
\* of its message are written as quotes).
get_rest_host ==
    LET cosmo == load_cloudify_working_dir_settings(FALSE)
        rest_host == get_management_server(cosmo.obj)
    IN  IF cosmo.error # NoError THEN Fail(cosmo.error)
        ELSE IF Truthy(rest_host) THEN Value(rest_host)
        ELSE Fail(CloudifyCliError(
                 "Must either first run 'cfy use' or explicitly provide a manager IP",
                 NoPath))

\* The module-level get_rest_port() and get_rest_protocol().
utils_get_rest_port ==
    LET cosmo == load_cloudify_working_dir_settings(FALSE)
    IN  IF cosmo.error # NoError THEN Fail(cosmo.error)
        ELSE Value(get_rest_port(cosmo.obj))

utils_get_rest_protocol ==
    LET cosmo == load_cloudify_working_dir_settings(FALSE)
    IN  IF cosmo.error # NoError THEN Fail(cosmo.error)
        ELSE Value(get_rest_protocol(cosmo.obj))

get_username == environ_get("CLOUDIFY_USERNAME_ENV")
get_password == environ_get("CLOUDIFY_PASSWORD_ENV")

\* get_auth_header: None, or the one-entry header dict; its value is kept
\* as the credentials text that base64_encode is given.
get_auth_header(username, password) ==
    IF Truthy(username) /\ Truthy(password)
    THEN PyDict(<< <<(<<"CLOUDIFY_AUTHENTICATION_HEADER">>),
                     PyStr(username.s \o <<":">> \o password.s)>> >>)
    ELSE None

get_ssl_trust_all ==
    LET trust_all == environ_get("CLOUDIFY_SSL_TRUST_ALL")
    IN  PyBool(trust_all # None /\ Len(trust_all.s) > 0)

\* A certificate path: the text of the environment variable, or a path of
\* the tree.
PUBLIC_REST_CERT == "constants.PUBLIC_REST_CERT"
CertText(v) == [path |-> NoPath, text |-> v.s, none |-> FALSE]
CertPath(p) == [path |-> p, text |-> <<>>, none |-> FALSE]
CertNone == [path |-> NoPath, text |-> <<>>, none |-> TRUE]

\* os.path.isfile of a certificate path.
isfile(path) ==
    /\ path.rel = <<CLOUDIFY_WD_SETTINGS_DIRECTORY_NAME, PUBLIC_REST_CERT>>
    /\ path.dir \in marker
    /\ path.dir \in args.cert_files

\* get_default_rest_cert_local_path(): the path, or the error raised.
get_default_rest_cert_local_path ==
    LET init_path == get_init_path
    IN  IF init_path # NoPath
        THEN [error |-> NoError, path |-> join(init_path, PUBLIC_REST_CERT)]
        ELSE [error |->
                [CloudifyCliError(
                    "The default path for REST certificates cannot be calculated because a working directory is not set.",
                    NoPath)
                 EXCEPT !.possible_solutions =
                    <<"Run 'cfy init' or 'cfy use' to initialize a working directory">>],
              path |-> NoPath]

\* get_ssl_cert(): the certificate, or the error raised.
get_ssl_cert ==
    IF Truthy(environ_get("LOCAL_REST_CERT_FILE"))
    THEN [error |-> NoError, cert |-> CertText(environ_get("LOCAL_REST_CERT_FILE"))]
    ELSE LET default_cert_file == get_default_rest_cert_local_path
         IN  IF default_cert_file.error # NoError
             THEN [error |-> default_cert_file.error, cert |-> CertNone]
             ELSE [error |-> NoError,
                   cert |-> IF isfile(default_cert_file.path)
                            THEN CertPath(default_cert_file.path)
                            ELSE CertNone]

\* What get_rest_client gives: the CloudifyClient it constructed, or the
\* error raised before one was constructed.
NoClient == [host |-> None, port |-> None, protocol |-> None,
             headers |-> None, cert |-> CertNone, trust_all |-> None]
CloudifyClient(host, port, protocol, headers, cert, trust_all) ==
    [host |-> host, port |-> port, protocol |-> protocol,
     headers |-> headers, cert |-> cert, trust_all |-> trust_all]
Constructed(client) == [error |-> NoError, constructed |-> TRUE,
                        client |-> client]
NotConstructed(e) == [error |-> e, constructed |-> FALSE, client |-> NoClient]

\* Mutant of get_rest_client: the stored port is read first and an
\* override only fills in for an unset stored port.
get_rest_client_stored_first(rest_host, rest_port, rest_protocol, username, password, trust_all) ==
    LET host == IF Truthy(rest_host) THEN Value(rest_host) ELSE get_rest_host
        port == IF utils_get_rest_port.error = NoError
                   /\ Truthy(utils_get_rest_port.value)
                THEN utils_get_rest_port
                ELSE Value(rest_port)
        protocol == IF Truthy(rest_protocol) THEN Value(rest_protocol)
                    ELSE utils_get_rest_protocol
        user == IF Truthy(username) THEN username ELSE get_username
        pass == IF Truthy(password) THEN password ELSE get_password
        headers == get_auth_header(user, pass)
        trust == IF trust_all = None THEN get_ssl_trust_all ELSE trust_all
        cert == get_ssl_cert
    IN  CASE host.error # NoError -> NotConstructed(host.error)
          [] host.error = NoError /\ protocol.error # NoError ->
                NotConstructed(protocol.error)
          [] host.error = NoError /\ protocol.error = NoError
                /\ cert.error # NoError -> NotConstructed(cert.error)
          [] OTHER -> Constructed(CloudifyClient(host.value, port.value,
                          protocol.value, headers, cert.cert, trust))

\* get_rest_client(rest_host, rest_port, rest_protocol, username, password,
\* trust_all): each `if not x:` fills x in; the first error raised ends the
\* call.  The version check after the construction is disabled.
get_rest_client(rest_host, rest_port, rest_protocol, username, password, trust_all) ==
    LET host == IF Truthy(rest_host) THEN Value(rest_host) ELSE get_rest_host
        port == IF Truthy(rest_port) THEN Value(rest_port)
                ELSE utils_get_rest_port
        protocol == IF Truthy(rest_protocol) THEN Value(rest_protocol)
                    ELSE utils_get_rest_protocol
        user == IF Truthy(username) THEN username ELSE get_username
        pass == IF Truthy(password) THEN password ELSE get_password
        headers == get_auth_header(user, pass)
        trust == IF trust_all = None THEN get_ssl_trust_all ELSE trust_all
        cert == get_ssl_cert
    IN  CASE host.error # NoError -> NotConstructed(host.error)
          [] host.error = NoError /\ port.error # NoError ->
                NotConstructed(port.error)
          [] host.error = NoError /\ port.error = NoError
                /\ protocol.error # NoError -> NotConstructed(protocol.error)
          [] host.error = NoError /\ port.error = NoError
                /\ protocol.error = NoError /\ cert.error # NoError ->
                NotConstructed(cert.error)
          [] OTHER -> Constructed(CloudifyClient(host.value, port.value,
                          protocol.value, headers, cert.cert, trust))

set_rest_protocol(obj, rest_protocol) ==
    [obj EXCEPT !["_rest_protocol"] = rest_protocol]

\* The settings files the runs of get_rest_client find: as `init` wrote
\* it, after `use` of a manager, and after `use` of a manager on port 443.
StoredSettings ==
    {NewSettings,
     set_management_server(NewSettings, PyStr(Chars_10_0_0_1)),
     set_rest_protocol(
        set_rest_port(set_management_server(NewSettings, PyStr(Chars_10_0_0_1)),
                      PyInt(443)),
        PyStr(Chars_https))}

\* The arguments of the call and the environment variables of the process.
RestCalls ==
    [rest_host : {None, PyStr(<<"h", "2">>)},
     rest_port : {None, PyInt(8443)},
     rest_protocol : {None, PyStr(Chars_https)},
     username : {None, PyStr(<<"u">>)},
     password : {None, PyStr(<<"p">>)},
     trust_all : {None}]
RestEnviron ==
    [CLOUDIFY_USERNAME_ENV : {None, PyStr(<<"e", "u">>)},
     CLOUDIFY_PASSWORD_ENV : {None, PyStr(<<"e", "p">>)},
     LOCAL_REST_CERT_FILE : {None, PyStr(<<>>), PyStr(<<"c">>)},
     CLOUDIFY_SSL_TRUST_ALL : {None, PyStr(<<"1">>)}]

RestOutcome(op) == [op |-> op, error |-> NoError, constructed |-> FALSE,
                    client |-> NoClient, cert |-> CertNone]

\* One invocation in a working directory that has at most one marker.
InitRest ==
    /\ cwd = NumDirs - 2
    /\ \/ marker = {} /\ context = Blank
       \/ \E d \in Dirs, doc \in {NoFile} \cup {yaml_dump(s) : s \in StoredSettings} :
             marker = {d} /\ context = [Blank EXCEPT ![d] = doc]
    /\ pc = "command"
    /\ registered = {}
    /\ res = Res("start")
    /\ cosmo_wd_settings = NoObj
    /\ entry_context = Blank
    /\ \E call \in RestCalls, environ \in RestEnviron, cert_files \in SUBSET marker :
          args = [call |-> call, environ |-> environ, cert_files |-> cert_files]
    /\ outcome = RestOutcome("start")

call_get_rest_client ==
    /\ pc = "command"
    /\ LET got == get_rest_client(args.call.rest_host, args.call.rest_port,
                                  args.call.rest_protocol, args.call.username,
                                  args.call.password, args.call.trust_all)
       IN  outcome' = [op |-> "get_rest_client", error |-> got.error,
                       constructed |-> got.constructed, client |-> got.client,
                       cert |-> got.client.cert]
    /\ UNCHANGED <<cwd, marker, context, pc, registered, res,
                   cosmo_wd_settings, entry_context, args>>

call_get_ssl_cert ==
    /\ pc = "command"
    /\ outcome' = [RestOutcome("get_ssl_cert") EXCEPT
                      !.error = get_ssl_cert.error, !.cert = get_ssl_cert.cert]
    /\ UNCHANGED <<cwd, marker, context, pc, registered, res,
                   cosmo_wd_settings, entry_context, args>>

NextRest ==
    \/ call_get_rest_client
    \/ call_get_ssl_cert

SpecRest == InitRest /\ [][NextRest]_vars

\* ------------------------------------------------------ inputs_to_dict
\* Longest inline string, and longest list of sources, of the runs.
MaxInlineLen == 6
MaxSources == 2

PyList(items) == [t |-> "list", n |-> 0, s |-> <<>>, m |-> items]
\* A dict of inputs: m is the function from its keys to its values.
Mapping(f) == [t |-> "dict", n |-> 0, s |-> <<>>, m |-> f]
EmptyDict == <<>>
\* input_dict[key] = value
setitem(d, key, value) ==
    [k \in DOMAIN d \cup {key} |-> IF k = key THEN value ELSE d[k]]
\* Mutant of update: a key that is already there keeps its value.
update_keeps_first(d, content) ==
    [k \in DOMAIN d \cup DOMAIN content |->
        IF k \in DOMAIN d THEN d[k] ELSE content[k]]
\* parsed_dict.update(content)
update(d, content) ==
    [k \in DOMAIN d \cup DOMAIN content |->
        IF k \in DOMAIN content THEN content[k] ELSE d[k]]

\* str.strip() and str.split(sep).
RECURSIVE lstrip(_)
lstrip(chars) == IF chars # <<>> /\ Head(chars) = " "
                 THEN lstrip(Tail(chars)) ELSE chars
RECURSIVE rstrip(_)
rstrip(chars) == IF chars # <<>> /\ chars[Len(chars)] = " "
                 THEN rstrip(SubSeq(chars, 1, Len(chars) - 1)) ELSE chars
\* Mutant of strip: only leading whitespace is removed.
strip_left_only(chars) == lstrip(chars)
strip(chars) == rstrip(lstrip(chars))
RECURSIVE split(_, _)
split(chars, sep) ==
    IF \A i \in 1..Len(chars) : chars[i] # sep THEN <<chars>>
    ELSE LET i == CHOOSE i \in 1..Len(chars) :
                      chars[i] = sep /\ \A j \in 1..(i - 1) : chars[j] # sep
         IN  <<SubSeq(chars, 1, i - 1)>>
             \o split(SubSeq(chars, i + 1, Len(chars)), sep)

\* The CloudifyCliError of the inputs: its message (the format string up
\* to the first placeholder) and what the placeholders are filled with.
NoInputError == [type |-> "", msg |-> "", resource |-> <<>>,
                 resource_name |-> ""]
InputError(msg, resource, resource_name) ==
    [type |-> "CloudifyCliError", msg |-> msg, resource |-> resource,
     resource_name |-> resource_name]
Content(v) == [error |-> NoInputError, value |-> v]
NoContent(e) == [error |-> e, value |-> None]

\* plain_string_to_dict: the loop over mapped_inputs.
RECURSIVE mapped_inputs_loop(_, _, _)
mapped_inputs_loop(mapped_inputs, input_dict, input_string) ==
    IF mapped_inputs = <<>> THEN Content(Mapping(input_dict))
    ELSE LET mapped_input == strip(Head(mapped_inputs))
             split_mapping == split(mapped_input, "=")
         IN  IF mapped_input = <<>>
             THEN mapped_inputs_loop(Tail(mapped_inputs), input_dict,
                                     input_string)
             ELSE IF Len(split_mapping) = 2
             THEN mapped_inputs_loop(
                      Tail(mapped_inputs),
                      setitem(input_dict, strip(split_mapping[1]),
                              PyStr(strip(split_mapping[2]))),
                      input_string)
             ELSE NoContent(InputError("Invalid input format: ",
                                       input_string, ""))

plain_string_to_dict(input_string) ==
    mapped_inputs_loop(split(strip(input_string), ";"), EmptyDict,
                       strip(input_string))

\* yaml.load of a one-line document, for the documents of the runs: empty
\* is None; `- x` is a list; a `:` followed by a space or the end is the
\* value indicator of a one-entry block mapping, two of them are a
\* scanner error; `*` starts an alias, which nothing anchors; anything
\* else is a plain scalar.  The plain scalar `=`
\* resolves to a tag that has no constructor.
YAMLError == InputError("YAMLError", <<>>, "")
ValueIndicators(t) ==
    {i \in 1..Len(t) : t[i] = ":" /\ (i = Len(t) \/ t[i + 1] = " ")}
yaml_load_scalar(t) ==
    IF t = <<"=">> THEN NoContent(YAMLError)
    ELSE Content(construct_scalar(Token("plain", t)))
yaml_load_text(text) ==
    LET t == strip(text)
        at == ValueIndicators(t)
        i == CHOOSE i \in at : TRUE
        value == yaml_load_scalar(strip(SubSeq(t, i + 1, Len(t))))
        is_sequence == t[1] = "-" /\ (Len(t) = 1 \/ t[2] = " ")
    IN  CASE t = <<>> -> Content(None)
          [] t # <<>> /\ t[1] = "*" -> NoContent(YAMLError)
          [] t # <<>> /\ t[1] # "*" /\ is_sequence ->
                Content(PyList(<<PyStr(strip(Tail(t)))>>))
          [] t # <<>> /\ t[1] # "*" /\ ~is_sequence /\ at = {} ->
                yaml_load_scalar(t)
          [] t # <<>> /\ t[1] # "*" /\ ~is_sequence
                /\ Cardinality(at) = 1 ->
                IF value.error # NoInputError THEN value
                ELSE Content(Mapping(setitem(EmptyDict,
                                             strip(SubSeq(t, 1, i - 1)),
                                             value.value)))
          [] OTHER -> NoContent(YAMLError)

\* The files below the current directory that the resources may name.
os_path_isfile(resource) == resource \in DOMAIN args.files
os_path_isdir(resource) == resource \in DOMAIN args.dirs
os_listdir(resource) == args.dirs[resource]
os_path_join(resource, input_file) == resource \o <<"/">> \o input_file
\* glob.glob: the matches of a pattern, an existing path itself.
glob_glob(resource) ==
    IF resource \in DOMAIN args.globs THEN args.globs[resource]
    ELSE IF os_path_isfile(resource) \/ os_path_isdir(resource)
    THEN <<resource>>
    ELSE <<>>

\* What handle_inputs_source leaves: parsed_dict, or the error raised.
Handled(d) == [error |-> NoInputError, dict |-> d]
Aborted(e) == [error |-> e, dict |-> EmptyDict]

\* The content handle_inputs_source parses from the resource: the except
\* clause turns to the file, or to the resource itself, as YAML.
content_of(resource) ==
    LET plain == plain_string_to_dict(resource)
        loaded == IF os_path_isfile(resource)
                  THEN yaml_load_text(args.files[resource])
                  ELSE yaml_load_text(resource)
    IN  IF plain.error = NoInputError THEN plain
        ELSE IF loaded.error # NoInputError
        THEN NoContent(InputError("is not a valid YAML", resource, ""))
        ELSE loaded

\* Mutant of handle_inputs_source: the error of plain_string_to_dict is not
\* caught.
handle_inputs_source_no_fallback(resource, parsed_dict, resource_name) ==
    LET content == plain_string_to_dict(resource)
    IN  IF content.error # NoInputError THEN Aborted(content.error)
        ELSE Handled(update(parsed_dict, content.value.m))

\* Mutant of handle_inputs_source: content that is no dict is passed over
\* like None.
handle_inputs_source_skips(resource, parsed_dict, resource_name) ==
    LET content == content_of(resource)
    IN  IF content.error # NoInputError THEN Aborted(content.error)
        ELSE IF content.value.t = "dict"
        THEN Handled(update(parsed_dict, content.value.m))
        ELSE Handled(parsed_dict)

\* handle_inputs_source(resource), with the parsed_dict and the
\* resource_name of the enclosing call.
handle_inputs_source(resource, parsed_dict, resource_name) ==
    LET content == content_of(resource)
    IN  IF content.error # NoInputError THEN Aborted(content.error)
        ELSE IF content.value.t = "dict"
        THEN Handled(update(parsed_dict, content.value.m))
        ELSE IF content.value = None
        THEN Handled(parsed_dict)
        ELSE Aborted(InputError("must represent a dictionary", resource,
                                resource_name))

\* `for input_file in ...: handle_inputs_source(input_file)`; an exception
\* raised by one file ends the loop, otherwise the next file is handled
\* with the dictionary as the files before it left it.
RECURSIVE input_files_loop(_, _, _)
input_files_next(handled, input_files, resource_name) ==
    IF handled.error # NoInputError THEN handled
    ELSE input_files_loop(input_files, handled.dict, resource_name)

input_files_loop(input_files, parsed_dict, resource_name) ==
    IF input_files = <<>> THEN Handled(parsed_dict)
    ELSE input_files_next(
             handle_inputs_source(Head(input_files), parsed_dict,
                                  resource_name),
             Tail(input_files), resource_name)

\* The body of `for resource in resources:`: a directory gives its listed
\* files, a wildcard its matches, anything else is handled as it is.
handle_resource(resource, parsed_dict, resource_name) ==
    IF resource.t # "str" THEN Handled(parsed_dict)
    ELSE IF os_path_isdir(resource.s)
    THEN input_files_loop(
             [i \in 1..Len(os_listdir(resource.s)) |->
                 os_path_join(resource.s, os_listdir(resource.s)[i])],
             parsed_dict, resource_name)
    ELSE IF glob_glob(resource.s) # <<>>
    THEN input_files_loop(glob_glob(resource.s), parsed_dict, resource_name)
    ELSE handle_inputs_source(resource.s, parsed_dict, resource_name)

\* `for resource in resources:`
RECURSIVE resources_loop(_, _, _)
resources_next(handled, resources, resource_name) ==
    IF handled.error # NoInputError THEN handled
    ELSE resources_loop(resources, handled.dict, resource_name)

resources_loop(resources, parsed_dict, resource_name) ==
    IF resources = <<>> THEN Handled(parsed_dict)
    ELSE resources_next(
             handle_resource(Head(resources), parsed_dict, resource_name),
             Tail(resources), resource_name)

\* What inputs_to_dict gives: None, the dict, or the error raised.
InputsOutcome(op) == [op |-> op, error |-> NoInputError, none |-> FALSE,
                      value |-> None]

inputs_to_dict(resources, resource_name) ==
    IF ~Truthy(resources)
    THEN [InputsOutcome("inputs_to_dict") EXCEPT !.none = TRUE]
    ELSE LET looped == resources_loop(IF resources.t # "list"
                                      THEN <<resources>> ELSE resources.m,
                                      EmptyDict, resource_name)
         IN  IF looped.error # NoInputError
             THEN [InputsOutcome("inputs_to_dict") EXCEPT
                      !.error = looped.error]
             ELSE [InputsOutcome("inputs_to_dict") EXCEPT
                      !.value = Mapping(looped.dict)]

\* The inline strings of the runs: every string of at most MaxInlineLen
\* characters of a key=value string, and strings that read as YAML.
InlineChars == {"a", "=", ";", " "}
InlineStrings == UNION {[1..n -> InlineChars] : n \in 0..MaxInlineLen}
InlineYaml == {<<"a", ":", " ", "x">>, <<"a", ":", " ", "b", ":", " ", "c">>,
               <<"~">>}

\* The input files: two files, found below the current directory and in
\* the directory d; `*` is the wildcard that matches what d lists.
F1 == <<"f", "1">>
F2 == <<"f", "2">>
D == <<"d">>
W == <<"*">>
YamlTexts == {<<"a", ":", " ", "x">>, <<"a", ":", " ", "y">>,
              <<"b", ":", " ", "z">>, <<>>, <<"-", " ", "a">>, <<"x">>,
              <<"a", ":", " ", "b", ":", " ", "c">>}
Listings == {<<F1, F2>>, <<F2, F1>>, <<F1>>, <<>>}
Sources == {PyStr(F1), PyStr(F2), PyStr(D), PyStr(W),
            PyStr(<<"a", "=", "w">>), Mapping(EmptyDict)}
SourceLists == {PyList(l) : l \in UNION {[1..n -> Sources] : n \in 1..MaxSources}}

World(resources, c1, c2, listing) ==
    [resources |-> resources,
     resource_name |-> "inputs",
     files |-> [p \in {F1, F2, os_path_join(D, F1), os_path_join(D, F2)} |->
                   IF p \in {F1, os_path_join(D, F1)} THEN c1 ELSE c2],
     dirs |-> [p \in {D} |-> listing],
     globs |-> [p \in {W} |-> listing]]

InitInputs ==
    /\ cwd = 0
    /\ marker = {}
    /\ context = Blank
    /\ pc = "command"
    /\ registered = {}
    /\ res = Res("start")
    /\ cosmo_wd_settings = NoObj
    /\ entry_context = Blank
    /\ \/ \E s \in InlineStrings \cup InlineYaml :
             args = World(PyStr(s), <<>>, <<>>, <<>>)
       \/ \E resources \in SourceLists \cup Sources \cup {None, PyList(<<>>)},
             c1 \in YamlTexts, c2 \in YamlTexts, listing \in Listings :
             args = World(resources, c1, c2, listing)
    /\ outcome = InputsOutcome("start")

call_inputs_to_dict ==
    /\ pc = "command"
    /\ outcome' = inputs_to_dict(args.resources, args.resource_name)
    /\ UNCHANGED <<cwd, marker, context, pc, registered, res,
                   cosmo_wd_settings, entry_context, args>>

call_plain_string_to_dict ==
    /\ pc = "command"
    /\ args.resources.t = "str"
    /\ LET got == plain_string_to_dict(args.resources.s)
       IN  outcome' = [InputsOutcome("plain_string_to_dict") EXCEPT
                          !.error = got.error, !.value = got.value]
    /\ UNCHANGED <<cwd, marker, context, pc, registered, res,
                   cosmo_wd_settings, entry_context, args>>

NextInputs ==
    \/ call_inputs_to_dict
    \/ call_plain_string_to_dict

SpecInputs == InitInputs /\ [][NextInputs]_vars

\* -------------------------------------------------------- CloudifyConfig
\* The keys the accessors read, and the default of each.
IMPORT_RESOLVER_KEY == <<"IMPORT_RESOLVER_KEY">>
ConfigKeys == {<<"colors">>, <<"auto_generate_ids">>, IMPORT_RESOLVER_KEY,
               <<"validate_definitions_version">>}

\* What an accessor gives: the value, or the exception raised; read tells
\* whether the configuration file was opened.
ConfigOutcome(op) == [op |-> op, error |-> "", value |-> None, read |-> FALSE]
\* No file config.yaml.
NoConfigFile == [t |-> "nofile", n |-> 0, s |-> <<>>, m |-> <<>>]

\* get_configuration_path(): config.yaml under the marker.
get_configuration_path == join(get_init_path, "config.yaml")

\* CloudifyConfig.__init__: open() of a file that is not there raises
\* IOError; yaml.safe_load gives the document of the file, None for an
\* empty one.
CloudifyConfig ==
    LET document == args.config[get_configuration_path.dir]
    IN  IF document = NoConfigFile
        THEN [error |-> "IOError", _config |-> None]
        ELSE [error |-> "", _config |-> document]

\* CloudifyConfig() and one of its properties: self._config.get(key,
\* default); None has no attribute `get`.
config_property(op, key, default) ==
    LET config == CloudifyConfig
    IN  CASE config.error # "" ->
                [ConfigOutcome(op) EXCEPT !.error = config.error, !.read = TRUE]
          [] config.error = "" /\ config._config.t # "dict" ->
                [ConfigOutcome(op) EXCEPT !.error = "AttributeError",
                                          !.read = TRUE]
          [] OTHER ->
                [ConfigOutcome(op) EXCEPT
                    !.value = IF key \in DOMAIN config._config.m
                              THEN config._config.m[key] ELSE default,
                    !.read = TRUE]

is_use_colors ==
    IF ~is_initialized
    THEN [ConfigOutcome("is_use_colors") EXCEPT !.value = PyBool(FALSE)]
    ELSE config_property("is_use_colors", <<"colors">>, PyBool(FALSE))

is_auto_generate_ids ==
    IF ~is_initialized
    THEN [ConfigOutcome("is_auto_generate_ids") EXCEPT !.value = PyBool(FALSE)]
    ELSE config_property("is_auto_generate_ids", <<"auto_generate_ids">>,
                         PyBool(FALSE))

\* dsl_parser's create_import_resolver: the resolver object built from a
\* resolver configuration.
create_import_resolver(resolver_configuration) ==
    [t |-> "resolver", n |-> 0, s |-> <<>>, m |-> resolver_configuration.m]

get_import_resolver ==
    IF ~is_initialized
    THEN ConfigOutcome("get_import_resolver")
    ELSE LET local_import_resolver ==
                 config_property("get_import_resolver", IMPORT_RESOLVER_KEY,
                                 Mapping(EmptyDict))
         IN  IF local_import_resolver.error # "" THEN local_import_resolver
             ELSE [local_import_resolver EXCEPT
                      !.value = create_import_resolver(@)]

is_validate_definitions_version ==
    IF ~is_initialized
    THEN [ConfigOutcome("is_validate_definitions_version") EXCEPT
             !.value = PyBool(TRUE)]
    ELSE config_property("is_validate_definitions_version",
                         <<"validate_definitions_version">>, PyBool(TRUE))

\* The configuration files of the runs: none, an empty document, or a
\* mapping that declares any of the keys.
ResolverConfiguration ==
    Mapping(setitem(EmptyDict, <<"implementation">>, PyStr(<<"r">>)))
ConfigValues(key) ==
    IF key = IMPORT_RESOLVER_KEY
    THEN {Mapping(EmptyDict), ResolverConfiguration}
    ELSE {PyBool(FALSE), PyBool(TRUE)}
ConfigDocuments ==
    {NoConfigFile, None}
    \cup {Mapping(f) : f \in UNION {{g \in [keys -> UNION {ConfigValues(k) : k \in keys}] :
                                        \A k \in keys : g[k] \in ConfigValues(k)} :
                                    keys \in SUBSET ConfigKeys}}

InitConfig ==
    /\ cwd = NumDirs - 2
    /\ marker \in {{}} \cup {{d} : d \in Dirs}
    /\ context = Blank
    /\ pc = "command"
    /\ registered = {}
    /\ res = Res("start")
    /\ cosmo_wd_settings = NoObj
    /\ entry_context = Blank
    /\ \E document \in ConfigDocuments :
          args = [config |-> [d \in Dirs |->
                                 IF d \in marker THEN document ELSE NoConfigFile]]
    /\ outcome = ConfigOutcome("start")

call_accessor(result) ==
    /\ pc = "command"
    /\ outcome' = result
    /\ UNCHANGED <<cwd, marker, context, pc, registered, res,
                   cosmo_wd_settings, entry_context, args>>

NextConfig ==
    \/ call_accessor(is_use_colors)
    \/ call_accessor(is_auto_generate_ids)
    \/ call_accessor(get_import_resolver)
    \/ call_accessor(is_validate_definitions_version)

SpecConfig == InitConfig /\ [][NextConfig]_vars

\* --------------------------------------------------------- new_excepthook
\* Highest verbosity level of the runs (0 is not verbose).
MaxVerbosity == 3

\* The exception classes the hook tells apart, each with its base classes
\* (itself included).
Bases(tpe) ==
    {tpe, "Exception"} \cup
    CASE tpe \in {"MaintenanceModeActiveError",
                  "MaintenanceModeActivatingError", "NotModifiedError"} ->
            {"CloudifyClientError"}
      [] tpe \in {"SuppressedCloudifyCliError", "CloudifyBootstrapError"} ->
            {"CloudifyCliError"}
      [] OTHER -> {}
ExceptionClasses ==
    {"Exception", "CloudifyClientError", "MaintenanceModeActiveError",
     "MaintenanceModeActivatingError", "NotModifiedError", "CloudifyCliError",
     "SuppressedCloudifyCliError", "CloudifyBootstrapError"}
issubclass(tpe, classes) == Bases(tpe) \cap classes # {}

\* A call of the logger: its level, what is written (the traceback that
\* print_exception formats ends with the line `tpe: message`), the prefix
\* and the text.
Logged(level, kind, prefix, text) ==
    [level |-> level, kind |-> kind, prefix |-> prefix, text |-> text]

\* recommend(possible_solutions)
recommend(possible_solutions) ==
    <<Logged("info", "text", "", "Possible solutions:")>>
    \o [i \in 1..Len(possible_solutions) |->
           Logged("info", "solution", "  - ", possible_solutions[i])]

\* Mutant of new_excepthook: output_message stays True for a
\* SuppressedCloudifyCliError.
new_excepthook_prints_suppressed(tpe, value, verbosity_level) ==
    LET is_client == issubclass(tpe, {"CloudifyClientError"})
        prefix == IF is_client
                     /\ ~issubclass(tpe, {"MaintenanceModeActiveError",
                                          "MaintenanceModeActivatingError",
                                          "NotModifiedError"})
                  THEN "An error occurred on the server" ELSE ""
        output_message == ~issubclass(tpe, {"CloudifyBootstrapError"})
    IN  (IF verbosity_level # 0
         THEN <<Logged("error", "traceback", tpe, value.message)>>
         ELSE <<>>)
        \o (IF output_message /\ verbosity_level = 0
            THEN <<Logged("error", "message", prefix, value.message)>>
            ELSE <<>>)
        \o (IF value.has_possible_solutions
            THEN recommend(value.possible_solutions) ELSE <<>>)

\* Mutant of new_excepthook: every CloudifyClientError gets the prefix.
new_excepthook_prefixes_all(tpe, value, verbosity_level) ==
    LET is_client == issubclass(tpe, {"CloudifyClientError"})
        prefix == IF is_client
                  THEN "An error occurred on the server" ELSE ""
        output_message ==
            /\ ~issubclass(tpe, {"SuppressedCloudifyCliError"})
            /\ ~issubclass(tpe, {"CloudifyBootstrapError"})
    IN  (IF verbosity_level # 0
         THEN <<Logged("error", "traceback", tpe, value.message)>>
         ELSE <<>>)
        \o (IF output_message /\ verbosity_level = 0
            THEN <<Logged("error", "message", prefix, value.message)>>
            ELSE <<>>)
        \o (IF value.has_possible_solutions
            THEN recommend(value.possible_solutions) ELSE <<>>)

\* new_excepthook(tpe, value, tb): what it hands to the logger, in order.
\* verbosity_level is the free name the function reads.
new_excepthook(tpe, value, verbosity_level) ==
    LET is_client == issubclass(tpe, {"CloudifyClientError"})
        server_traceback == IF is_client THEN value.server_traceback ELSE ""
        prefix == IF is_client
                     /\ ~issubclass(tpe, {"MaintenanceModeActiveError",
                                          "MaintenanceModeActivatingError",
                                          "NotModifiedError"})
                  THEN "An error occurred on the server" ELSE ""
        output_message ==
            /\ ~issubclass(tpe, {"SuppressedCloudifyCliError"})
            /\ ~issubclass(tpe, {"CloudifyBootstrapError"})
    IN  (IF verbosity_level # 0
         THEN <<Logged("error", "traceback", tpe, value.message)>>
              \o (IF server_traceback # ""
                  THEN <<Logged("error", "text", "",
                                "Server Traceback (most recent call last):"),
                         Logged("error", "server_traceback", "",
                                server_traceback)>>
                  ELSE <<>>)
         ELSE <<>>)
        \o (IF output_message /\ verbosity_level = 0
            THEN <<Logged("error", "message", prefix, value.message)>>
            ELSE <<>>)
        \o (IF value.has_possible_solutions
            THEN recommend(value.possible_solutions) ELSE <<>>)

\* The exceptions that reach the hook: a message, the server traceback of
\* a CloudifyClientError, and possible_solutions when that attribute is set.
ExceptionValues(tpe) ==
    [message : {"m1", "m2"},
     server_traceback : IF issubclass(tpe, {"CloudifyClientError"})
                        THEN {"", "st"} ELSE {""},
     has_possible_solutions : BOOLEAN,
     possible_solutions : {<<"s1", "s2">>}]

InitHook ==
    /\ cwd = 0
    /\ marker = {}
    /\ context = Blank
    /\ pc = "failed"
    /\ registered = {}
    /\ res = Res("start")
    /\ cosmo_wd_settings = NoObj
    /\ entry_context = Blank
    /\ \E tpe \in ExceptionClasses, verbosity_level \in 0..MaxVerbosity :
          \E value \in ExceptionValues(tpe) :
             args = [tpe |-> tpe, value |-> value,
                     verbosity_level |-> verbosity_level]
    /\ outcome = [op |-> "start", log |-> <<>>]

call_new_excepthook ==
    /\ pc = "failed"
    /\ outcome.op = "start"
    /\ outcome' = [op |-> "new_excepthook",
                   log |-> new_excepthook(args.tpe, args.value,
                                          args.verbosity_level)]
    /\ pc' = "exited"
    /\ UNCHANGED <<cwd, marker, context, registered, res, cosmo_wd_settings,
                   entry_context, args>>

NextHook ==
    \/ call_new_excepthook

SpecHook == InitHook /\ [][NextHook]_vars

\* ------------------------------------- two invocations, one settings file
\* Two processes run `with update_wd_settings() as wd: <one setter>` in the
\* same directory.  Each system call on the settings file is a step of its
\* own: load reads the file (open, read, close), dump opens it for writing,
\* which truncates it, and the buffered text reaches the file when the
\* `with open(...)` block closes it.  In the runs of this specification
\* pc, cosmo_wd_settings, entry_context, args and res are functions of the
\* invocation, and outcome is the sequence of the system calls made.
Invocations == {1, 2}

\* The statement inside the scope: one setter of the settings object.
Mutation(op, value) == [op |-> op, value |-> value]
Mutations ==
    {Mutation("set_management_server", PyStr(Chars_10_0_0_1)),
     Mutation("remove_management_server_context", None),
     Mutation("set_rest_port", PyInt(443)),
     Mutation("set_rest_protocol", PyStr(Chars_https))}

\* The attribute a setter assigns.
Assigned(mutation) ==
    CASE mutation.op = "set_rest_port" -> "_rest_port"
      [] mutation.op = "set_rest_protocol" -> "_rest_protocol"
      [] OTHER -> "_management_host"

\* The object after the statement inside the scope.
Mutate(mutation, obj) ==
    CASE mutation.op = "set_management_server" ->
            set_management_server(obj, mutation.value)
      [] mutation.op = "remove_management_server_context" ->
            remove_management_server_context(obj)
      [] mutation.op = "set_rest_port" -> set_rest_port(obj, mutation.value)
      [] OTHER -> set_rest_protocol(obj, mutation.value)

AttributeError == [type |-> "AttributeError",
                   msg |-> "'NoneType' object has no attribute",
                   path |-> NoPath, possible_solutions |-> <<>>]

\* Number of characters yaml.dump writes for the scalars of a document (the
\* tag line, the keys and the separators are the same in every document).
RECURSIVE TextLen(_)
TextLen(body) ==
    IF body = <<>> THEN 0
    ELSE Len(Head(body)[2].text)
         + (IF Head(body)[2].style = "quoted" THEN 2 ELSE 0)
         + TextLen(Tail(body))

\* A file whose first bytes are one document and whose last bytes are the
\* end of a longer one.
Torn(doc, existing) == [tag |-> "torn", body |-> doc.body \o existing.body]

\* Mutant of open_w: the file is opened without being truncated.
open_w_keeps(existing) == existing

\* open(target_file_path, 'w'): the file is truncated.
open_w(existing) == EmptyFile

\* f.write(text) and the close of the block: the text is written from
\* offset 0 of the descriptor; bytes another descriptor wrote beyond the
\* end of the text stay in the file.
f_write(doc, existing) ==
    IF TextLen(existing.body) <= TextLen(doc.body) THEN doc
    ELSE Torn(doc, existing)

SysCall(p, call) == [p |-> p, call |-> call]

InitRace ==
    /\ cwd = NumDirs - 2
    /\ marker \in {{}} \cup {{d} : d \in Dirs}
    /\ \E settings \in SettingsSamples :
          context \in {Blank} \cup
                      {[Blank EXCEPT ![d] = yaml_dump(settings)] : d \in marker}
    /\ pc = [p \in Invocations |-> "command"]
    /\ registered = {}
    /\ res = [p \in Invocations |-> NoError]
    /\ cosmo_wd_settings = [p \in Invocations |-> NoObj]
    /\ entry_context = [p \in Invocations |-> NoFile]
    /\ args \in [Invocations -> Mutations]
    /\ outcome = <<>>

\* update_wd_settings, up to the yield: load_cloudify_working_dir_settings().
update_wd_settings_load(p) ==
    /\ pc[p] = "command"
    /\ LET got == load_cloudify_working_dir_settings(FALSE)
       IN  IF got.error # NoError
           THEN /\ pc' = [pc EXCEPT ![p] = "failed"]
                /\ res' = [res EXCEPT ![p] = got.error]
                /\ UNCHANGED <<cosmo_wd_settings, entry_context, outcome>>
           ELSE /\ pc' = [pc EXCEPT ![p] = "scope"]
                /\ cosmo_wd_settings' = [cosmo_wd_settings EXCEPT ![p] = got.obj]
                /\ entry_context' =
                      [entry_context EXCEPT ![p] = context[get_context_path.path.dir]]
                /\ outcome' = Append(outcome, SysCall(p, "read"))
                /\ UNCHANGED res
    /\ UNCHANGED <<cwd, marker, context, registered, args>>

\* The statement inside the scope, on the object that was yielded; on None
\* (the file held no document) it raises, and the generator never resumes.
update_wd_settings_body(p) ==
    /\ pc[p] = "scope"
    /\ IF cosmo_wd_settings[p] = None
       THEN /\ pc' = [pc EXCEPT ![p] = "failed"]
            /\ res' = [res EXCEPT ![p] = AttributeError]
            /\ UNCHANGED cosmo_wd_settings
       ELSE /\ pc' = [pc EXCEPT ![p] = "resumed"]
            /\ cosmo_wd_settings' =
                  [cosmo_wd_settings EXCEPT ![p] = Mutate(args[p], @)]
            /\ UNCHANGED res
    /\ UNCHANGED <<cwd, marker, context, registered, entry_context, args,
                   outcome>>

\* dump_cloudify_working_dir_settings(cosmo_wd_settings, update=True), up to
\* `with open(target_file_path, 'w') as f`.
dump_open(p) ==
    /\ pc[p] = "resumed"
    /\ LET got == get_context_path
       IN  IF got.error # NoError
           THEN /\ pc' = [pc EXCEPT ![p] = "failed"]
                /\ res' = [res EXCEPT ![p] = got.error]
                /\ UNCHANGED <<context, outcome>>
           ELSE /\ pc' = [pc EXCEPT ![p] = "opened"]
                /\ context' = [context EXCEPT
                                  ![got.path.dir] = open_w(context[got.path.dir])]
                /\ outcome' = Append(outcome, SysCall(p, "open"))
                /\ UNCHANGED res
    /\ UNCHANGED <<cwd, marker, registered, cosmo_wd_settings, entry_context,
                   args>>

\* `f.write(yaml.dump(cosmo_wd_settings))` and the end of the with block.
dump_write(p) ==
    /\ pc[p] = "opened"
    /\ pc' = [pc EXCEPT ![p] = "exited"]
    /\ LET d == get_init_path.dir
       IN  context' = [context EXCEPT
                          ![d] = f_write(yaml_dump(cosmo_wd_settings[p]),
                                         context[d])]
    /\ outcome' = Append(outcome, SysCall(p, "write"))
    /\ UNCHANGED <<cwd, marker, registered, res, cosmo_wd_settings,
                   entry_context, args>>

NextRace ==
    \/ \E p \in Invocations : update_wd_settings_load(p)
    \/ \E p \in Invocations : update_wd_settings_body(p)
    \/ \E p \in Invocations : dump_open(p)
    \/ \E p \in Invocations : dump_write(p)

SpecRace == InitRace /\ [][NextRace]_vars

\* ------------------------------------------------------ commands/plugins.py
\* One invocation of a `cfy plugins` command.  Each call the command body
\* makes is a step; outcome.calls is the sequence of the calls made so far,
\* each with whether it returned, and res holds the local variables
\* rest_host and client of the command.
PluginCommands == {"upload", "delete", "download", "get", "ls"}

\* client.plugins.<operation> of each command.
RemoteOperation(command) ==
    CASE command = "upload" -> "plugins.upload"
      [] command = "delete" -> "plugins.delete"
      [] command = "download" -> "plugins.download"
      [] command = "get" -> "plugins.get"
      [] OTHER -> "plugins.list"
RemoteOperations == {RemoteOperation(command) : command \in PluginCommands}

\* The file behind plugin_path: whether tarfile.is_tarfile accepts it, the
\* names of its members in archive order (a name is its path components),
\* and whether the bytes of its members can be read.
Archive(is_tarfile, members, readable) ==
    [is_tarfile |-> is_tarfile, members |-> members, readable |-> readable]
Archives ==
    {Archive(FALSE, <<>>, TRUE),
     Archive(TRUE, <<>>, TRUE),
     Archive(TRUE, << <<"p">> >>, TRUE),
     Archive(TRUE, << <<"p">>, <<"p", "package.json">> >>, TRUE),
     Archive(TRUE, << <<"p">>, <<"p", "package.json">> >>, FALSE),
     Archive(TRUE, << <<"p", "package.json">>, <<"p">> >>, TRUE)}

IndexError == [type |-> "IndexError", msg |-> "list index out of range",
               path |-> NoPath, possible_solutions |-> <<>>]
CloudifyClientError == [type |-> "CloudifyClientError", msg |-> "",
                        path |-> NoPath, possible_solutions |-> <<>>]

\* validate(plugin_path): the error it raises, NoError when it returns.
validate(plugin_path) ==
    LET tar_members == plugin_path.members
        package_json_path == Append(tar_members[1], "package.json")
    IN  IF ~plugin_path.is_tarfile
        THEN CloudifyCliError("Archive is of an unsupported type. Only tar.gz is allowed",
                              NoPath)
        ELSE IF tar_members = <<>> THEN IndexError
        ELSE IF \A i \in 1..Len(tar_members) :
                    tar_members[i] # package_json_path
        THEN CloudifyCliError("Failed to validate plugin (package.json was not found in archive)",
                              NoPath)
        ELSE IF ~plugin_path.readable
        THEN CloudifyCliError("Failed to validate plugin (unable to read package.json)",
                              NoPath)
        ELSE NoError

Called(call, error) == [call |-> call, ok |-> error = NoError]
PluginsOutcome(calls, error) == [calls |-> calls, error |-> error]
Locals(rest_host, client) == [rest_host |-> rest_host, client |-> client]

InitPlugins ==
    /\ cwd = NumDirs - 2
    /\ \/ marker = {} /\ context = Blank
       \/ \E d \in Dirs, doc \in {NoFile} \cup {yaml_dump(s) : s \in StoredSettings} :
             marker = {d} /\ context = [Blank EXCEPT ![d] = doc]
    /\ pc = "command"
    /\ registered = {}
    /\ res = Locals(None, NoClient)
    /\ cosmo_wd_settings = NoObj
    /\ entry_context = Blank
    /\ \E command \in PluginCommands, plugin_path \in Archives,
          environ \in RestEnviron, cert_files \in SUBSET marker :
          args = [command |-> command, plugin_path |-> plugin_path,
                  environ |-> environ, cert_files |-> cert_files]
    /\ outcome = PluginsOutcome(<<>>, NoError)

\* `rest_host = utils.get_rest_host()`, the first call of every command.
plugins_get_rest_host ==
    /\ pc = "command"
    /\ outcome.calls = <<>>
    /\ outcome' = PluginsOutcome(
                      Append(outcome.calls,
                             Called("get_rest_host", get_rest_host.error)),
                      get_rest_host.error)
    /\ res' = [res EXCEPT !.rest_host = get_rest_host.value]
    /\ pc' = IF get_rest_host.error = NoError THEN "host" ELSE "failed"
    /\ UNCHANGED <<cwd, marker, context, registered, cosmo_wd_settings,
                   entry_context, args>>

\* `utils.get_rest_client(rest_host)`; in upload it is an argument of
\* upload_plugin and so evaluated before upload_plugin is entered.
plugins_get_rest_client ==
    /\ pc = "host"
    /\ LET got == get_rest_client(res.rest_host, None, None, None, None, None)
       IN  /\ outcome' = PluginsOutcome(
                             Append(outcome.calls,
                                    Called("get_rest_client", got.error)),
                             got.error)
           /\ res' = [res EXCEPT !.client = got.client]
           /\ pc' = IF got.error = NoError THEN "client" ELSE "failed"
    /\ UNCHANGED <<cwd, marker, context, registered, cosmo_wd_settings,
                   entry_context, args>>

\* Mutant of upload_plugin_validate: an exception of validate is swallowed.
upload_plugin_validate_swallows ==
    /\ pc = "client"
    /\ args.command = "upload"
    /\ outcome' = PluginsOutcome(
                      Append(outcome.calls,
                             Called("validate", validate(args.plugin_path))),
                      NoError)
    /\ pc' = "validated"
    /\ UNCHANGED <<cwd, marker, context, registered, res, cosmo_wd_settings,
                   entry_context, args>>

\* utils.upload_plugin: `validate(plugin_path)`.
upload_plugin_validate ==
    /\ pc = "client"
    /\ args.command = "upload"
    /\ outcome' = PluginsOutcome(
                      Append(outcome.calls,
                             Called("validate", validate(args.plugin_path))),
                      validate(args.plugin_path))
    /\ pc' = IF validate(args.plugin_path) = NoError THEN "validated"
             ELSE "failed"
    /\ UNCHANGED <<cwd, marker, context, registered, res, cosmo_wd_settings,
                   entry_context, args>>

\* The call of the remote client: rest_client.plugins.upload in
\* upload_plugin, client.plugins.<operation> in the other commands.  The
\* manager answers, or the client raises.
client_plugins(error) ==
    /\ \/ pc = "validated"
       \/ pc = "client" /\ args.command # "upload"
    /\ outcome' = PluginsOutcome(
                      Append(outcome.calls,
                             Called(RemoteOperation(args.command), error)),
                      error)
    /\ pc' = IF error = NoError THEN "exited" ELSE "failed"
    /\ UNCHANGED <<cwd, marker, context, registered, res, cosmo_wd_settings,
                   entry_context, args>>

NextPlugins ==
    \/ plugins_get_rest_host
    \/ plugins_get_rest_client
    \/ upload_plugin_validate
    \/ \E error \in {NoError, CloudifyClientError} : client_plugins(error)

SpecPlugins == InitPlugins /\ [][NextPlugins]_vars

\* ======================================================== the properties
\* What the file system says, read off the state without the code's walk.
RECURSIVE Chain(_)
Chain(d) == IF dirname(d) = d THEN {d} ELSE {d} \cup Chain(dirname(d))

\* The directories from cwd up to the root that hold a marker.
MarkedAbove == Chain(cwd) \cap marker
\* The nearest of them.
Nearest == CHOOSE d \in MarkedAbove : \A e \in MarkedAbove : Depth(e) <= Depth(d)
\* A settings file lies under the nearest marker.
Locatable == MarkedAbove # {} /\ context[Nearest] # NoFile
MarkerPath(d) == Path(d, <<".cloudify">>)
ContextPath(d) == Path(d, <<".cloudify", "context">>)
UninitializedHint == <<"Run 'cfy init' in this directory">>

\* The management host the nearest settings file stores.
StoredHost == yaml_load(context[Nearest])["_management_host"]

\* C1: update_wd_settings. When the scope completes normally the settings
\* file the scope loaded holds the mutated record and nothing else on disk
\* changed; when the body raises, that exception reaches the caller and
\* every settings file is as it was when the scope was entered.
UpdateInPlaceContract ==
    res.op = "update_wd_settings" =>
        CASE res.error = BodyError -> context = entry_context
          [] res.error = NoError ->
                /\ res.path = ContextPath(Nearest)
                /\ context = [entry_context EXCEPT
                                 ![Nearest] = yaml_dump(res.obj)]
                /\ load_cloudify_working_dir_settings(FALSE) = Return(res.obj)
          [] OTHER -> ~Locatable

\* C1 witness: the body changed the record and then raised.
UpdateInPlaceWitness ==
    /\ res.op = "update_wd_settings"
    /\ res.error = BodyError
    /\ Locatable
    /\ res.obj # yaml_load(context[Nearest])

\* C2: is_manager_active() is false with no marker up to the root, false
\* with a settings file whose management_host is unset, true with one whose
\* management_host is set, raises in none of these cases, and is true
\* exactly when load(suppress_error=True) gives a record with the host set.
ManagerActiveContract ==
    res.op = "register_commands" =>
        /\ (MarkedAbove = {} => res.error = NoError /\ ~res.flag)
        /\ (Locatable =>
                /\ res.error = NoError
                /\ res.flag <=> StoredHost # None)
        /\ LET loaded == load_cloudify_working_dir_settings(TRUE)
           IN  res.flag <=> (/\ loaded.error = NoError
                             /\ ~loaded.none
                             /\ loaded.obj["_management_host"] # None)

\* C2 witness: a settings file with the host set, and the answer true.
ManagerActiveWitness ==
    /\ res.op = "register_commands"
    /\ Locatable
    /\ StoredHost # None
    /\ res.flag

\* C3: after register_commands the five fixed commands are registered;
\* with an active manager all manager commands and no local command are;
\* otherwise (no marker included) all local commands and no manager
\* command are; and the registration did not fail.
RegistrationContract ==
    res.op = "register_commands" =>
        /\ res.error = NoError
        /\ AlwaysCommands \subseteq registered
        /\ IF Locatable /\ StoredHost # None
           THEN /\ ManagerCommands \subseteq registered
                /\ registered \cap LocalCommands = {}
           ELSE /\ LocalCommands \subseteq registered
                /\ registered \cap ManagerCommands = {}

\* C3 witness: no marker anywhere, and the local command set registered.
RegistrationWitness ==
    /\ res.op = "register_commands"
    /\ marker = {}
    /\ LocalCommands \subseteq registered
    /\ "plugins.plugins" \notin registered

\* C4: the command set is chosen once, at import, before a command body
\* runs, and no later step of the invocation changes it, whatever the
\* command does to the settings file.
RegisteredOnce ==
    [][/\ (pc # "import" /\ pc' # "import" => registered' = registered)
       /\ (pc' \in {"command", "scope"} => AlwaysCommands \subseteq registered')
      ]_vars

\* C4 witness: the manager commands are still registered in a run whose
\* command has cleared the management host.
RegisteredOnceWitness ==
    /\ pc = "command"
    /\ ManagerCommands \subseteq registered
    /\ res.op = "update_wd_settings"
    /\ res.error = NoError
    /\ ~is_manager_active.flag

\* C5: get_init_path returns the marker path of the nearest directory from
\* cwd up to the root that holds the marker, None exactly when none does,
\* and its loop tests at most the directories of that chain.
LocateContract ==
    res.op = "get_init_path" =>
        /\ res.none <=> MarkedAbove = {}
        /\ res.path = IF MarkedAbove = {} THEN NoPath ELSE MarkerPath(Nearest)
        /\ res.n <= Depth(cwd) + 1

\* C5 witness: started three levels below the only marker on the chain.
LocateWitness ==
    /\ res.op = "get_init_path"
    /\ MarkedAbove # {}
    /\ Depth(cwd) - Depth(Nearest) = 3
    /\ res.path = MarkerPath(Nearest)

\* C6: with no marker up to the root, load(suppress_error=True) returns
\* None and raises nothing; load(suppress_error=False) raises the
\* uninitialized error, which carries the hint to run init here.
LoadUninitializedContract ==
    (res.op = "load" /\ MarkedAbove = {}) =>
        IF res.arg
        THEN res.none /\ res.error = NoError
        ELSE /\ ~res.none
             /\ res.error.type = "CloudifyCliError"
             /\ res.error.msg = "Not initialized: Cannot find .cloudify"
             /\ res.error.possible_solutions = UninitializedHint

\* C6 witness: the unsuppressed load of an uninitialized directory.
LoadUninitializedWitness ==
    /\ res.op = "load"
    /\ MarkedAbove = {}
    /\ ~res.arg
    /\ res.error # NoError

\* C7 as stated: with a marker but no settings file beneath it, load fails
\* with an error other than the uninitialized one, whatever suppress_error.
LoadMissingFileAlwaysFails ==
    (res.op = "load" /\ MarkedAbove # {} /\ ~Locatable) =>
        /\ res.error # NoError
        /\ res.error # raise_uninitialized
        /\ ~res.none

\* C7 as amended: with a marker but no settings file beneath it,
\* load(suppress_error=False) fails with the "File ... does not exist"
\* error, which is not the uninitialized error and carries no hint;
\* load(suppress_error=True) returns None.
LoadMissingFileContract ==
    (res.op = "load" /\ MarkedAbove # {} /\ ~Locatable) =>
        IF res.arg
        THEN res.none /\ res.error = NoError
        ELSE /\ ~res.none
             /\ res.error = CloudifyCliError("File does not exist",
                                             ContextPath(Nearest))
             /\ res.error.msg # raise_uninitialized.msg
             /\ res.error.possible_solutions = <<>>

\* C7 witness: the unsuppressed load under a marker without settings file.
LoadMissingFileWitness ==
    /\ res.op = "load"
    /\ MarkedAbove # {}
    /\ ~Locatable
    /\ ~res.arg
    /\ res.error.msg = "File does not exist"

\* C8: dump with update=True. With no settings file to locate it fails and
\* the disk is as before; with one, exactly the file load would read is
\* overwritten with the record, and no marker is created.
DumpUpdateContract ==
    [][(res'.op = "dump" /\ res'.arg) =>
          IF Locatable
          THEN /\ res'.error = NoError
               /\ res'.path = get_context_path.path
               /\ marker' = marker
               /\ context' = [context EXCEPT
                                 ![Nearest] = yaml_dump(res'.obj)]
          ELSE /\ res'.error # NoError
               /\ marker' = marker
               /\ context' = context
      ]_vars

\* C8 witness: an update that overwrote the file of a directory above cwd,
\* cwd holding no marker itself.
DumpUpdateWitness ==
    /\ res.op = "dump"
    /\ res.arg
    /\ res.error = NoError
    /\ cwd \notin marker
    /\ res.path = ContextPath(Nearest)
    /\ context[Nearest] = yaml_dump(res.obj)

\* C9: dump with update=False leaves a marker in cwd and a settings file
\* beneath it that is the dumped record alone, so that load from cwd
\* reads that file and returns exactly that record.
DumpFreshContract ==
    (res.op = "dump" /\ ~res.arg) =>
        /\ res.error = NoError
        /\ cwd \in marker
        /\ res.path = ContextPath(cwd)
        /\ context[cwd] = yaml_dump(res.obj)
        /\ get_context_path.path = ContextPath(cwd)
        /\ load_cloudify_working_dir_settings(FALSE) = Return(res.obj)

\* C9 witness: a fresh dump in a directory below another settings file
\* that holds a different record.
DumpFreshWitness ==
    /\ res.op = "dump"
    /\ ~res.arg
    /\ \E d \in Chain(cwd) \ {cwd} :
          context[d] # NoFile /\ context[d] # context[cwd]
    /\ load_cloudify_working_dir_settings(FALSE).obj = res.obj

\* C10: a record saved and loaded back is equal to the saved one in every
\* attribute, unset ones included.
RoundTrip ==
    res.op = "load" =>
        /\ res.error = NoError
        /\ ~res.none
        /\ DOMAIN res.obj = Fields
        /\ \A f \in Fields : res.obj[f] = cosmo_wd_settings[f]

\* C10 witness: a record with unset attributes and with strings that read
\* like null came back.
RoundTripWitness ==
    /\ res.op = "load"
    /\ res.obj["_management_host"] = PyStr(Chars_null)
    /\ res.obj["_management_key"] = PyStr(<<"~">>)
    /\ res.obj["_management_user"] = None
    /\ res.obj["_rest_port"] = None
    /\ res.obj = cosmo_wd_settings

\* What the call and the environment say, read off the state.
StoredPort == yaml_load(context[Nearest])["_rest_port"]
StoredProtocol == yaml_load(context[Nearest])["_rest_protocol"]
HostAvailable ==
    Truthy(args.call.rest_host) \/ (Locatable /\ Truthy(StoredHost))
Override(given, otherwise) == IF Truthy(given) THEN given ELSE otherwise
MissingFileError ==
    CloudifyCliError("File does not exist", ContextPath(Nearest))
LoadError == IF MarkedAbove = {} THEN raise_uninitialized ELSE MissingFileError
NoManagerMessage ==
    "Must either first run 'cfy use' or explicitly provide a manager IP"

\* C11 as stated: with a host at hand, every field of the client is the
\* override when given, else the environment (username, password) or the
\* stored value (host, port, protocol), else the built-in default (port,
\* protocol) when nothing is stored.
ResolvePrecedenceWithDefault ==
    (outcome.op = "get_rest_client" /\ HostAvailable
        /\ get_ssl_cert.error = NoError) =>
        /\ outcome.constructed
        /\ outcome.client.port =
              Override(args.call.rest_port,
                       IF Locatable THEN StoredPort
                       ELSE PyInt(DEFAULT_REST_PORT))
        /\ outcome.client.protocol =
              Override(args.call.rest_protocol,
                       IF Locatable THEN StoredProtocol ELSE DEFAULT_PROTOCOL)

\* C11, amended: a constructed client holds, per field, the override when
\* one is given, else the environment variable (username, password) or the
\* stored value (host, port, protocol; a stored port or protocol is the
\* built-in default until it is set).  With a settings file and a host the
\* client is constructed; without a loadable settings file a missing port
\* or protocol override ends the call with the error of load.
ResolvePrecedenceContract ==
    outcome.op = "get_rest_client" =>
        /\ outcome.constructed =>
              /\ outcome.client.host = Override(args.call.rest_host, StoredHost)
              /\ outcome.client.port = Override(args.call.rest_port, StoredPort)
              /\ outcome.client.protocol =
                    Override(args.call.rest_protocol, StoredProtocol)
              /\ outcome.client.headers =
                    get_auth_header(
                        Override(args.call.username,
                                 args.environ.CLOUDIFY_USERNAME_ENV),
                        Override(args.call.password,
                                 args.environ.CLOUDIFY_PASSWORD_ENV))
        /\ (HostAvailable /\ Locatable) => outcome.constructed
        /\ (HostAvailable /\ ~Locatable
               /\ ~(Truthy(args.call.rest_port)
                    /\ Truthy(args.call.rest_protocol))) =>
              /\ ~outcome.constructed
              /\ outcome.error = LoadError

\* A stored port 443 loses against the override 8443 and wins without one,
\* and the user name of the environment is used for want of an override.
ResolvePrecedenceWitness ==
    /\ outcome.op = "get_rest_client"
    /\ outcome.constructed
    /\ Locatable /\ StoredPort = PyInt(443)
    /\ args.call.rest_port = PyInt(8443)
    /\ outcome.client.port = PyInt(8443)
    /\ args.call.rest_protocol = None
    /\ outcome.client.protocol = PyStr(Chars_https)
    /\ args.call.username = None
    /\ args.call.password # None
    /\ args.environ.CLOUDIFY_USERNAME_ENV # None
    /\ outcome.client.headers # None

\* C12 as stated: without a host override and without a stored host, be
\* the host unset or the directory uninitialized, the call fails with the
\* no-manager-selected error and constructs no client.
NoHostAlwaysNoManagerError ==
    (outcome.op = "get_rest_client" /\ ~HostAvailable) =>
        /\ ~outcome.constructed
        /\ outcome.error.msg = NoManagerMessage

\* C12, amended: without a host no client is constructed.  With a settings
\* file whose host is unset the error is the no-manager-selected one, whose
\* message names `cfy use` and which has no possible_solutions; without a
\* loadable settings file the error is the one of load (uninitialized,
\* with the `cfy init` hint, or missing file).
NoHostContract ==
    (outcome.op = "get_rest_client" /\ ~HostAvailable) =>
        /\ ~outcome.constructed
        /\ outcome.client = NoClient
        /\ outcome.error =
              IF Locatable THEN CloudifyCliError(NoManagerMessage, NoPath)
              ELSE LoadError

NoHostWitness ==
    /\ outcome.op = "get_rest_client"
    /\ args.call.rest_host = None
    /\ Locatable /\ StoredHost = None
    /\ outcome.error.msg = NoManagerMessage
    /\ ~outcome.constructed

\* C13 as stated: get_ssl_cert gives the environment override when it is
\* not empty, else the default path under the marker when that file
\* exists, and in every other case no certificate, never an error.
SslCertNeverFails ==
    outcome.op = "get_ssl_cert" =>
        /\ outcome.error = NoError
        /\ outcome.cert =
              IF Truthy(args.environ.LOCAL_REST_CERT_FILE)
              THEN CertText(args.environ.LOCAL_REST_CERT_FILE)
              ELSE IF MarkedAbove # {} /\ Nearest \in args.cert_files
              THEN CertPath(Path(Nearest, <<".cloudify", PUBLIC_REST_CERT>>))
              ELSE CertNone

\* The inline string handed in, read by positions: its segments between
\* the `;`, and per segment the trimmed text left and right of its `=`.
Input == args.resources.s
Segments ==
    {seg \in (1..(Len(Input) + 1)) \X (0..Len(Input)) :
        /\ seg[1] <= seg[2] + 1
        /\ (seg[1] = 1 \/ Input[seg[1] - 1] = ";")
        /\ (seg[2] = Len(Input) \/ Input[seg[2] + 1] = ";")
        /\ \A k \in seg[1]..seg[2] : Input[k] # ";"}
NonSpace(i, j) == {k \in i..j : Input[k] # " "}
Trimmed(i, j) ==
    IF NonSpace(i, j) = {} THEN <<>>
    ELSE SubSeq(Input,
                CHOOSE a \in NonSpace(i, j) : \A k \in NonSpace(i, j) : a <= k,
                CHOOSE b \in NonSpace(i, j) : \A k \in NonSpace(i, j) : k <= b)
EqualSigns(seg) == {k \in seg[1]..seg[2] : Input[k] = "="}
PairSegments == {seg \in Segments : NonSpace(seg[1], seg[2]) # {}}
KeyOf(seg) == Trimmed(seg[1], (CHOOSE k \in EqualSigns(seg) : TRUE) - 1)
ValueOf(seg) == Trimmed((CHOOSE k \in EqualSigns(seg) : TRUE) + 1, seg[2])
\* The string is no path: it names no file, directory or wildcard.
Inline ==
    /\ args.resources.t = "str"
    /\ Input \notin DOMAIN args.files \cup DOMAIN args.dirs
                       \cup DOMAIN args.globs
ValidInline ==
    /\ Inline
    /\ Input # <<>>
    /\ \A seg \in PairSegments : Cardinality(EqualSigns(seg)) = 1
Malformed ==
    /\ Inline
    /\ \E seg \in PairSegments : Cardinality(EqualSigns(seg)) # 1

\* C14: a valid inline string (every non-empty segment with exactly one
\* `=`) gives, from plain_string_to_dict and from inputs_to_dict, the dict
\* whose keys are the trimmed segment keys and whose values are the trimmed
\* segment values, the last segment of a key giving its value.
InlineContract ==
    (outcome.op \in {"inputs_to_dict", "plain_string_to_dict"}
        /\ ValidInline) =>
        /\ outcome.error = NoInputError
        /\ ~outcome.none
        /\ outcome.value.t = "dict"
        /\ DOMAIN outcome.value.m = {KeyOf(seg) : seg \in PairSegments}
        /\ \A seg \in PairSegments :
              (\A later \in PairSegments :
                  KeyOf(later) = KeyOf(seg) => later[1] <= seg[1]) =>
              outcome.value.m[KeyOf(seg)] = PyStr(ValueOf(seg))

\* Two segments give the same key different values, the later one wins.
InlineWitness ==
    /\ outcome.op = "inputs_to_dict"
    /\ ValidInline
    /\ \E first \in PairSegments, last \in PairSegments :
          /\ first[1] < last[1]
          /\ KeyOf(first) = KeyOf(last)
          /\ ValueOf(first) # ValueOf(last)
          /\ outcome.value.m[KeyOf(last)] = PyStr(ValueOf(last))

\* C15 as stated: inputs_to_dict of a malformed inline string fails with
\* the error of the input format and returns no mapping.
MalformedAlwaysFails ==
    (outcome.op = "inputs_to_dict" /\ Malformed) =>
        /\ outcome.error.type = "CloudifyCliError"
        /\ outcome.error.msg \in {"Invalid input format: ",
                                  "must represent a dictionary"}
        /\ outcome.value = None

\* C15, amended: plain_string_to_dict fails on a malformed string with the
\* Invalid-input-format error; inputs_to_dict never does, it reads the
\* string as YAML instead: a YAML mapping is returned as the inputs, a YAML
\* null gives the empty dict, any other YAML value fails with the 'must
\* represent a dictionary' error, and unparsable YAML with the 'is not a
\* valid YAML' error.  A string of key=value characters alone is a YAML
\* string, and so fails with 'must represent a dictionary'.
MalformedContract ==
    /\ (outcome.op = "plain_string_to_dict" /\ Malformed) =>
          outcome.error = InputError("Invalid input format: ",
                                     strip(Input), "")
    /\ (outcome.op = "inputs_to_dict" /\ Malformed) =>
          /\ outcome.error.msg # "Invalid input format: "
          /\ (\A k \in 1..Len(Input) : Input[k] \in InlineChars) =>
                outcome.error = InputError("must represent a dictionary",
                                           Input, args.resource_name)
          /\ LET yaml == yaml_load_text(Input)
             IN  CASE yaml.error # NoInputError ->
                        outcome.error =
                            InputError("is not a valid YAML", Input, "")
                   [] yaml.error = NoInputError /\ yaml.value.t = "dict" ->
                        outcome.error = NoInputError
                        /\ outcome.value = yaml.value
                   [] yaml.error = NoInputError /\ yaml.value = None ->
                        outcome.error = NoInputError
                        /\ outcome.value = Mapping(EmptyDict)
                   [] OTHER ->
                        outcome.error =
                            InputError("must represent a dictionary", Input,
                                       args.resource_name)

\* The malformed inline string `a: x` is returned as the inputs {a: x}.
MalformedWitness ==
    /\ outcome.op = "inputs_to_dict"
    /\ Malformed
    /\ Input = <<"a", ":", " ", "x">>
    /\ outcome.error = NoInputError
    /\ outcome.value = Mapping(setitem(EmptyDict, <<"a">>, PyStr(<<"x">>)))

\* The sources in the order inputs_to_dict comes to them: a directory
\* stands for its entries in listing order, a wildcard for its matches.
ResourceList ==
    IF args.resources.t = "list" THEN args.resources.m ELSE <<args.resources>>
Expansion(resource) ==
    IF resource.t # "str" THEN <<>>
    ELSE IF resource.s \in DOMAIN args.dirs
    THEN [i \in 1..Len(args.dirs[resource.s]) |->
             resource.s \o <<"/">> \o args.dirs[resource.s][i]]
    ELSE IF resource.s \in DOMAIN args.globs /\ args.globs[resource.s] # <<>>
    THEN args.globs[resource.s]
    ELSE <<resource.s>>
RECURSIVE Flatten(_)
Flatten(list) ==
    IF list = <<>> THEN <<>> ELSE Expansion(Head(list)) \o Flatten(Tail(list))
Processed == Flatten(ResourceList)
\* What the i-th source parses to.
Kind(i) ==
    LET content == content_of(Processed[i])
    IN  CASE content.error # NoInputError -> "error"
          [] content.error = NoInputError /\ content.value.t = "dict" -> "dict"
          [] content.error = NoInputError /\ content.value = None -> "none"
          [] OTHER -> "other"
KeysOf(i) == IF Kind(i) = "dict" THEN DOMAIN content_of(Processed[i]).value.m
             ELSE {}
LastDefining(k) ==
    CHOOSE i \in 1..Len(Processed) :
        /\ k \in KeysOf(i)
        /\ \A j \in 1..Len(Processed) : k \in KeysOf(j) => j <= i

\* C16: the dict inputs_to_dict returns has the union of the keys of the
\* sources, in a list and in a directory alike, and each key has the value
\* of the source processed last among those that define it.
MergeContract ==
    (outcome.op = "inputs_to_dict" /\ outcome.error = NoInputError
        /\ ~outcome.none) =>
        /\ DOMAIN outcome.value.m = UNION {KeysOf(i) : i \in 1..Len(Processed)}
        /\ \A k \in DOMAIN outcome.value.m :
              outcome.value.m[k] =
                  content_of(Processed[LastDefining(k)]).value.m[k]

\* A directory lists two files that give one key different values.
MergeWitness ==
    /\ outcome.op = "inputs_to_dict"
    /\ args.resources = PyStr(D)
    /\ Len(Processed) = 2
    /\ \E k \in KeysOf(1) \cap KeysOf(2) :
          /\ content_of(Processed[1]).value.m[k]
                # content_of(Processed[2]).value.m[k]
          /\ outcome.value.m[k] = content_of(Processed[2]).value.m[k]

\* C17: when every source parses to a dict or to None the call raises
\* nothing and returns the keys of the dicts alone; the first source that
\* parses to anything else ends the call with the 'must represent a
\* dictionary' error, which names that source and the resource_name, and
\* nothing is returned.
SourceTypeContract ==
    (outcome.op = "inputs_to_dict" /\ Truthy(args.resources)) =>
        LET bad == {i \in 1..Len(Processed) : Kind(i) \in {"other", "error"}}
            first == CHOOSE i \in bad : \A j \in bad : i <= j
        IN  IF bad = {}
            THEN /\ outcome.error = NoInputError
                 /\ outcome.value.t = "dict"
                 /\ DOMAIN outcome.value.m =
                       UNION {KeysOf(i) : i \in 1..Len(Processed)}
            ELSE /\ outcome.value = None
                 /\ Kind(first) = "other" =>
                       outcome.error =
                           InputError("must represent a dictionary",
                                      Processed[first], args.resource_name)

\* A dict, then an empty file, then a list: the call ends with the error.
SourceTypeWitness ==
    /\ outcome.op = "inputs_to_dict"
    /\ Len(Processed) = 3
    /\ Kind(1) = "dict" /\ Kind(2) = "none" /\ Kind(3) = "other"
    /\ outcome.error.msg = "must represent a dictionary"
    /\ outcome.error.resource = Processed[3]
    /\ outcome.value = None

\* What the configuration file under the nearest marker declares.
ConfigDocument == args.config[Nearest]
Declared(key, default) ==
    IF key \in DOMAIN ConfigDocument.m THEN ConfigDocument.m[key] ELSE default
AccessorDefault ==
    CASE outcome.op = "is_use_colors" -> PyBool(FALSE)
      [] outcome.op = "is_auto_generate_ids" -> PyBool(FALSE)
      [] outcome.op = "get_import_resolver" -> None
      [] OTHER -> PyBool(TRUE)
AccessorKey ==
    CASE outcome.op = "is_use_colors" -> <<"colors">>
      [] outcome.op = "is_auto_generate_ids" -> <<"auto_generate_ids">>
      [] outcome.op = "get_import_resolver" -> IMPORT_RESOLVER_KEY
      [] OTHER -> <<"validate_definitions_version">>

\* C18 as stated: without a marker each accessor returns its default and
\* does not open the configuration file; with a marker and a configuration
\* file that is valid YAML, whatever subset of the keys it declares, each
\* returns what the file declares for its key and the default for a key
\* that is not declared (for the import resolver: the resolver of the
\* declared, or of no, configuration).
ConfigAccessorsContract ==
    (outcome.op # "start") =>
        IF MarkedAbove = {}
        THEN outcome = [ConfigOutcome(outcome.op) EXCEPT
                           !.value = AccessorDefault]
        ELSE ConfigDocument # NoConfigFile =>
                /\ outcome.error = ""
                /\ outcome.value =
                      IF outcome.op = "get_import_resolver"
                      THEN create_import_resolver(
                               Declared(AccessorKey, Mapping(EmptyDict)))
                      ELSE Declared(AccessorKey, AccessorDefault)

\* What the hook wrote to the error log, and which of it shows the message
\* of the exception.
ErrorLog == SelectSeq(outcome.log, LAMBDA entry : entry.level = "error")
ShowsMessage(entry) ==
    entry.kind \in {"message", "traceback"} /\ entry.text = args.value.message
Suppressed == "SuppressedCloudifyCliError" \in Bases(args.tpe)
ServerError ==
    /\ "CloudifyClientError" \in Bases(args.tpe)
    /\ args.tpe \notin {"MaintenanceModeActiveError",
                        "MaintenanceModeActivatingError", "NotModifiedError"}

RaceFile == context[get_init_path.dir]

\* The place of a system call in the sequence of calls, 0 when not made.
Pos(p, call) ==
    IF \E i \in 1..Len(outcome) : outcome[i] = SysCall(p, call)
    THEN CHOOSE i \in 1..Len(outcome) : outcome[i] = SysCall(p, call)
    ELSE 0

Other(p) == CHOOSE q \in Invocations : q # p

\* Both invocations ran to their end, and both had read the file before
\* either opened it for writing.
BothLoadThenBothSave ==
    /\ \A p \in Invocations : pc[p] = "exited"
    /\ \A p, q \in Invocations : Pos(p, "read") < Pos(q, "open")

\* The invocation whose write came last.
LastWriter == CHOOSE p \in Invocations : Pos(p, "write") = Len(outcome)

\* The two saves did not overlap: the last writer opened the file after
\* the other had written it.
SavesInTurn == Pos(Other(LastWriter), "write") < Pos(LastWriter, "open")

\* C21: nothing keeps two invocations of update_wd_settings apart.  When
\* both load and then both save, one save after the other, the file is the
\* complete record of the last writer, which is the record both loaded
\* with the last writer's mutation alone: the attribute the other
\* invocation assigned is as it was loaded, its mutation is lost.
LostUpdateContract ==
    (BothLoadThenBothSave /\ SavesInTurn) =>
        LET w == LastWriter
            o == Other(LastWriter)
            original == yaml_load(entry_context[LastWriter])
        IN  /\ entry_context[o] = entry_context[w]
            /\ RaceFile = yaml_dump(cosmo_wd_settings[w])
            /\ RaceFile = yaml_dump(Mutate(args[w], original))
            /\ cosmo_wd_settings[o] # cosmo_wd_settings[w] =>
                  RaceFile # yaml_dump(cosmo_wd_settings[o])
            /\ Assigned(args[o]) # Assigned(args[w]) =>
                  yaml_load(RaceFile)[Assigned(args[o])]
                     = original[Assigned(args[o])]

\* C21 witness: both loaded, then both saved in turn; the first writer had
\* changed an attribute the last writer did not assign, and the file holds
\* the loaded value of that attribute.
LostUpdateWitness ==
    /\ BothLoadThenBothSave
    /\ SavesInTurn
    /\ Assigned(args[Other(LastWriter)]) # Assigned(args[LastWriter])
    /\ cosmo_wd_settings[Other(LastWriter)][Assigned(args[Other(LastWriter)])]
          # yaml_load(entry_context[LastWriter])[Assigned(args[Other(LastWriter)])]
    /\ yaml_load(RaceFile)[Assigned(args[Other(LastWriter)])]
          = yaml_load(entry_context[LastWriter])[Assigned(args[Other(LastWriter)])]
    /\ RaceFile = yaml_dump(cosmo_wd_settings[LastWriter])

\* ------------------------------------------------------------------ C22
\* The place of the first call of that name in the calls made, 0 if none.
CallPos(call) ==
    IF \E i \in 1..Len(outcome.calls) : outcome.calls[i].call = call
    THEN CHOOSE i \in 1..Len(outcome.calls) :
             /\ outcome.calls[i].call = call
             /\ \A j \in 1..(i - 1) : outcome.calls[j].call # call
    ELSE 0

Returned(call) == CallPos(call) > 0 /\ outcome.calls[CallPos(call)].ok
Raising(call) == CallPos(call) > 0 /\ ~outcome.calls[CallPos(call)].ok

RemoteCalls ==
    {i \in 1..Len(outcome.calls) : outcome.calls[i].call \in RemoteOperations}

\* The archive has a package.json below its first member that can be read.
ValidArchive ==
    /\ args.plugin_path.is_tarfile
    /\ args.plugin_path.members # <<>>
    /\ \E i \in 1..Len(args.plugin_path.members) :
          args.plugin_path.members[i]
             = Append(args.plugin_path.members[1], "package.json")
    /\ args.plugin_path.readable

\* C22: a plugins command makes at most one remote call, the operation of
\* that command, and only after get_rest_host returned; upload makes it
\* only after validate also returned, host first and validate second, on
\* an archive that is valid.  If get_rest_host or validate raised, no
\* remote call is made in the invocation.
PluginsOrderContract ==
    /\ Cardinality(RemoteCalls) <= 1
    /\ \A i \in RemoteCalls :
          /\ outcome.calls[i].call = RemoteOperation(args.command)
          /\ Returned("get_rest_host")
          /\ CallPos("get_rest_host") < i
          /\ args.command = "upload" =>
                /\ Returned("validate")
                /\ CallPos("get_rest_host") < CallPos("validate")
                /\ CallPos("validate") < i
                /\ ValidArchive
    /\ (Raising("get_rest_host") \/ Raising("validate")) => RemoteCalls = {}
    /\ Raising("get_rest_host") => Len(outcome.calls) = 1

\* C22 witness: upload ran to its end; the host was resolved, then the
\* archive validated, then plugins.upload called.
PluginsOrderWitness ==
    /\ args.command = "upload"
    /\ pc = "exited"
    /\ Returned("get_rest_host")
    /\ Returned("validate")
    /\ CallPos("get_rest_host") < CallPos("validate")
    /\ CallPos("validate") < CallPos("plugins.upload")
    /\ Returned("plugins.upload")

====
